---- MODULE Spec2Model ----
(***************************************************************************)
(* The core of the FDA Orange Book ETL: archive acquisition, safe           *)
(* extraction, role resolution and content hashing                         *)
(* (coreason_etl_fda_orange_book/source.py, class FdaOrangeBookSource),    *)
(* the pipeline run (main.py, run_pipeline) and the bronze record          *)
(* generator (bronze/ingestion.py, yield_bronze_records).                  *)
(*                                                                         *)
(* Paths are sequences of components counted from the filesystem root, so  *)
(* <<"w", "dest">> is /w/dest.  A filesystem is a function from the paths  *)
(* that exist to nodes (directory, regular file with its content, symbolic *)
(* link with its absolute target).                                         *)
(***************************************************************************)
EXTENDS Integers, Sequences, FiniteSets, TLC

\* Longest central directory of an archive handed to extract_archive.
MaxMembers == 2

\* Most chunks a response body is streamed in.
MaxChunks == 2

VARIABLES
    fs,               \* the filesystem: path -> node
    ex_pc,            \* extract_archive: "idle", "loop", "returned", "raised"
    archive,          \* the zip_path argument: [exists, valid, members]
    idx,              \* members of zip_ref.infolist() already iterated
    extracted_files,  \* the list extract_archive builds and returns
    iterations,       \* branch taken by each loop iteration so far
    ex_error,         \* the exception leaving extract_archive: [kind, stage]
    written,          \* physical paths of the files the current call has written
    base_url,         \* FdaOrangeBookSource.base_url
    dl_pc,            \* download_archive: "idle", "streaming", "returned", "raised"
    gets,             \* the requests.get calls of the current download_archive call
    response,         \* what requests.get returned, NoResponse before that
    client_error,     \* the exception the HTTP client raised in this call
    received,         \* chunks of response.iter_content() consumed so far
    parent_exists,    \* destination.parent is a directory
    dest_file,        \* the file at destination: [exists, data]
    dl_error          \* the exception leaving download_archive: [kind, cause]

exVars == <<fs, ex_pc, archive, idx, extracted_files, iterations, ex_error, written>>

dlVars == <<base_url, dl_pc, gets, response, client_error, received,
            parent_exists, dest_file, dl_error>>

VARIABLES
    rs_pc,            \* resolve_product_files: "idle", "returned", "raised"
    rs_files,         \* its extracted_files argument: a list of paths
    rs_mapping,       \* the mapping it returns, NoMapping otherwise
    rs_error          \* the exception leaving it: [kind, message]

rsVars == <<rs_pc, rs_files, rs_mapping, rs_error>>

VARIABLES
    hs_pc,            \* calculate_file_hash: "idle", "reading", "returned", "raised"
    hs_file,          \* what is at file_path: [kind, data]
    hs_pos,           \* bytes of the open file already read
    hs_md5,           \* the state of the hash_md5 object
    hs_reads,         \* length of the chunk each f.read call returned
    hs_digest,        \* the digest returned, <<>> otherwise
    hs_error,         \* the exception leaving the call: [kind, cause, stage]
    hs_prev           \* content and digest of the previous call that returned

hsVars == <<hs_pc, hs_file, hs_pos, hs_md5, hs_reads, hs_digest, hs_error, hs_prev>>

VARIABLES
    rp_pc,            \* "idle", "running", "done", "failed", "exited"
    rp_args,          \* its arguments: [base_url, download_dir]
    rp_stage,         \* statements of Stages already executed
    rp_calls,         \* the calls made so far, with their argument
    rp_disk,          \* what exists on disk under download_dir
    rp_error,         \* the exception leaving run_pipeline: [kind, stage]
    rp_exit           \* how main ended: "none", "returns", "sys.exit(1)"

rpVars == <<rp_pc, rp_args, rp_stage, rp_calls, rp_disk, rp_error, rp_exit>>

VARIABLES
    bz_pc,            \* yield_bronze_records: "idle", "next", "open", "reading", "finished"
    bz_map,           \* its files_map argument, as the list of files_map.items()
    bz_k,             \* listed files the two loops have reached so far
    bz_hash_calls,    \* the paths source.calculate_file_hash was called with
    bz_hash,          \* source_hash of the file being processed
    bz_lines,         \* the lines of the file being read
    bz_line,          \* lines of it already iterated
    bz_out,           \* the records yielded from the file being processed
    bz_log            \* the failure logged last with logger.error

bzVars == <<bz_pc, bz_map, bz_k, bz_hash_calls, bz_hash, bz_lines, bz_line, bz_out,
           bz_log>>

\* The state of the operations that follow extraction.
\* FdaOrangeBookSource.cleanup on one path.
VARIABLES
    cl_pc,            \* the position of cleanup
    cl_node,          \* what is at the path
    cl_error,         \* the exception that left cleanup, or "none"
    cl_log,           \* what cleanup logged: "none", "debug" or "warning"
    cl_calls          \* the calls of cleanup made on the path

clVars == <<cl_pc, cl_node, cl_error, cl_log, cl_calls>>

\* create_gold_view on three frames.
VARIABLES
    gv_pc,            \* the position of create_gold_view
    gv_args,          \* its arguments
    gv_out            \* the rows of the frame it returned

gvVars == <<gv_pc, gv_args, gv_out>>

coVars == <<rsVars, hsVars, rpVars, bzVars, clVars, gvVars>>

vars == <<exVars, dlVars, coVars>>

------------------------------------------------------------------------------
(* Paths and the filesystem *)

Root == <<>>

\* The destination_dir argument and the places around it.
DestDir == <<"w", "dest">>
OutDir == <<"w", "out">>

DirNode == [kind |-> "dir", data |-> "", target |-> <<>>]
FileNode(d) == [kind |-> "file", data |-> d, target |-> <<>>]
LinkNode(t) == [kind |-> "link", data |-> "", target |-> t]

Parent(p) == IF p = <<>> THEN <<>> ELSE SubSeq(p, 1, Len(p) - 1)

IsPrefix(a, b) == Len(a) <= Len(b) /\ SubSeq(b, 1, Len(a)) = a

Range(s) == {s[i] : i \in 1..Len(s)}

Exists(f, p) == p \in DOMAIN f
IsDir(f, p) == p \in DOMAIN f /\ f[p].kind = "dir"
IsFile(f, p) == p \in DOMAIN f /\ f[p].kind = "file"
IsLink(f, p) == p \in DOMAIN f /\ f[p].kind = "link"

Put(f, p, node) == [q \in (DOMAIN f) \cup {p} |-> IF q = p THEN node ELSE f[q]]

\* One name is a proper string prefix of another ("dest" of "dest-evil").
NameStartsWith(name, prefix) ==
    name = prefix \/ <<name, prefix>> \in {<<"dest-evil", "dest">>}

\* os.path.realpath as Path.resolve(strict=False) uses it: components are
\* taken left to right, ".." drops the last resolved component, a symbolic
\* link is replaced by its target, a missing component is kept as written.
\* A chain of links that does not end is reported (ok = FALSE).
RECURSIVE Walk(_, _, _, _)
Walk(f, cur, rest, fuel) ==
    IF rest = <<>> THEN [ok |-> TRUE, path |-> cur]
    ELSE LET c == Head(rest)
             np == Append(cur, c)
         IN  IF c = ".." THEN Walk(f, Parent(cur), Tail(rest), fuel)
             ELSE IF c \in {"", "."} THEN Walk(f, cur, Tail(rest), fuel)
             ELSE IF IsLink(f, np)
                  THEN IF fuel = 0 THEN [ok |-> FALSE, path |-> <<>>]
                       ELSE Walk(f, Root, f[np].target \o Tail(rest), fuel - 1)
             ELSE Walk(f, np, Tail(rest), fuel)

Links(f) == {p \in DOMAIN f : f[p].kind = "link"}

RealPath(f, p) == Walk(f, Root, p, (Len(p) + 1) * (Cardinality(Links(f)) + 1))

\* Path.resolve(): the canonical path, or RuntimeError on a symlink loop.
resolve(f, p) ==
    LET r == RealPath(f, p)
    IN  IF r.ok THEN [raises |-> "none", path |-> r.path]
        ELSE [raises |-> "RuntimeError", path |-> <<>>]

\* A naive check on the string form: "/w/dest-evil/x" starts with "/w/dest".
is_relative_to_startswith(p, d) ==
    \/ IsPrefix(d, p)
    \/ /\ d # <<>>
       /\ Len(p) >= Len(d)
       /\ SubSeq(p, 1, Len(d) - 1) = Parent(d)
       /\ NameStartsWith(p[Len(d)], d[Len(d)])

\* PurePath.is_relative_to(other): component-wise containment.
is_relative_to(p, d) == IsPrefix(d, p)

------------------------------------------------------------------------------
(* Archives *)

\* A ZipInfo: the stored name (absolute or not, split at "/") and whether
\* it is a directory entry (the stored name ends with "/").
Member(abs, parts, dir) == [abs |-> abs, parts |-> parts, is_dir |-> dir]

GoodTxt == Member(FALSE, <<"good.txt">>, FALSE)
SubDirEntry == Member(FALSE, <<"sub">>, TRUE)
LnkF == Member(FALSE, <<"lnk", "f.txt">>, FALSE)
LnkUpDestG == Member(FALSE, <<"lnk", "..", "dest", "g.txt">>, FALSE)
UpEvil == Member(FALSE, <<"..", "evil.txt">>, FALSE)
UpSibling == Member(FALSE, <<"..", "dest-evil", "x.txt">>, FALSE)
AbsEtc == Member(TRUE, <<"etc", "p">>, FALSE)

MemberNames == {GoodTxt, SubDirEntry, LnkF, LnkUpDestG, UpEvil, UpSibling, AbsEtc}

\* The bytes stored for a member (one read of the decompressor).
MemberData(m) == IF m.is_dir THEN "" ELSE "new"

SeqsUpTo(S, n) == UNION {[1..k -> S] : k \in 0..n}

\* What zip_path can be: absent, a file that is no ZIP container, or a ZIP
\* container with its central directory.
Archives ==
    {[exists |-> FALSE, valid |-> FALSE, members |-> <<>>],
     [exists |-> TRUE, valid |-> FALSE, members |-> <<>>]}
    \cup {[exists |-> TRUE, valid |-> TRUE, members |-> ms] :
             ms \in SeqsUpTo(MemberNames, MaxMembers)}

\* Damage to a member's local header or data, found when it is read.
Defects == {"none", "bad_header", "bad_crc", "os_error"}

\* Failures of the path calls that do not depend on the member's name.
PathFaults == {"none", "ValueError", "OSError"}

------------------------------------------------------------------------------
(* zipfile.ZipFile.extract, as extract_archive calls it *)

\* destination_dir / member.filename: an absolute name replaces the
\* directory, ".." segments are kept as written.
TargetPath(m) == IF m.abs THEN m.parts ELSE DestDir \o m.parts

\* The name ZipFile.extract writes to: the stored name made relative and
\* stripped of empty, "." and ".." components.
ArcName(m) == SelectSeq(m.parts, LAMBDA c : c \notin {"", ".", ".."})

Prefixes(p) == {SubSeq(p, 1, k) : k \in 0..Len(p)}

\* os.makedirs(p, exist_ok=True) when p does not exist: every missing
\* directory down to p is created, through the symbolic links on the way.
MakeDirs(f, p) ==
    LET r == RealPath(f, p)
    IN  IF ~r.ok \/ \E q \in Prefixes(r.path) : Exists(f, q) /\ ~IsDir(f, q)
        THEN [ok |-> FALSE, fs |-> f]
        ELSE [ok |-> TRUE,
              fs |-> [q \in (DOMAIN f) \cup Prefixes(r.path) |->
                         IF q \in DOMAIN f THEN f[q] ELSE DirNode]]

ExtractResult(outcome, f, wrote) == [outcome |-> outcome, fs |-> f, wrote |-> wrote]

\* ZipFile.extract(member, destination_dir).  The parent directories are
\* made first; a directory entry is made with mkdir; for a file the member
\* is opened (a damaged local header is found here), then the target is
\* opened for writing (created or truncated) and the data copied (a CRC
\* mismatch is found at the last read, before its bytes are written).
ZipExtract(f, m, defect) ==
    LET targetpath == DestDir \o ArcName(m)
        up == MakeDirs(f, Parent(targetpath))
        phys == RealPath(up.fs, targetpath)
    IN  IF defect = "os_error" \/ ~up.ok \/ ~phys.ok
        THEN ExtractResult("OSError", f, {})
        ELSE IF m.is_dir
        THEN IF IsDir(up.fs, phys.path) THEN ExtractResult("ok", up.fs, {})
             ELSE IF Exists(up.fs, phys.path) THEN ExtractResult("OSError", up.fs, {})
             ELSE ExtractResult("ok", Put(up.fs, phys.path, DirNode), {})
        ELSE IF defect = "bad_header" THEN ExtractResult("BadZipFile", up.fs, {})
        ELSE IF IsDir(up.fs, phys.path) THEN ExtractResult("OSError", up.fs, {})
        ELSE IF defect = "bad_crc"
        THEN ExtractResult("BadZipFile", Put(up.fs, phys.path, FileNode("")), {phys.path})
        ELSE ExtractResult("ok", Put(up.fs, phys.path, FileNode(MemberData(m))), {phys.path})

------------------------------------------------------------------------------
(* FdaOrangeBookSource.extract_archive *)

NoError == [kind |-> "none", stage |-> "none"]
Raised(kind, stage) == [kind |-> kind, stage |-> stage]

\* The zip-slip check of one member: "safe", "unsafe" (the warning
\* "Skipping unsafe file path"), or the exception the check raises.
PathCheck(f, m, fault) ==
    LET resolved_path == resolve(f, TargetPath(m))
        dest == resolve(f, DestDir)
    IN  IF fault # "none" THEN fault
        ELSE IF resolved_path.raises # "none" THEN resolved_path.raises
        ELSE IF dest.raises # "none" THEN dest.raises
        ELSE IF ~is_relative_to(resolved_path.path, dest.path) THEN "unsafe"
        ELSE "safe"

\* The exceptions of the check that the loop catches and turns into a skip.
CaughtByCheck == {"ValueError", "RuntimeError"}

\* The call without its existence test: opening the missing file fails with
\* FileNotFoundError, which no handler of extract_archive catches.
ExtractArchiveBegin_no_exists_check(a) ==
    /\ ex_pc = "idle"
    /\ archive' = a
    /\ idx' = 0
    /\ extracted_files' = <<>>
    /\ iterations' = <<>>
    /\ IF ~a.exists
       THEN ex_pc' = "raised" /\ ex_error' = Raised("OSError", "open")
       ELSE IF ~a.valid
       THEN ex_pc' = "raised" /\ ex_error' = Raised("SourceSchemaError", "open")
       ELSE ex_pc' = "loop" /\ ex_error' = NoError
    /\ written' = {}
    /\ UNCHANGED fs
    /\ UNCHANGED <<dlVars, coVars>>

\* Lines 106-113: the existence test, then zipfile.ZipFile(zip_path, "r").
ExtractArchiveBegin(a) ==
    /\ ex_pc = "idle"
    /\ archive' = a
    /\ idx' = 0
    /\ extracted_files' = <<>>
    /\ iterations' = <<>>
    /\ IF ~a.exists
       THEN ex_pc' = "raised" /\ ex_error' = Raised("SourceConnectionError", "exists")
       ELSE IF ~a.valid
       THEN ex_pc' = "raised" /\ ex_error' = Raised("SourceSchemaError", "open")
       ELSE ex_pc' = "loop" /\ ex_error' = NoError
    /\ written' = {}
    /\ UNCHANGED fs
    /\ UNCHANGED <<dlVars, coVars>>

\* A skip that leaves the loop: the rest of the archive is not looked at.
SkipMember_return(fault) ==
    /\ ex_pc = "loop"
    /\ idx < Len(archive.members)
    /\ LET chk == PathCheck(fs, archive.members[idx + 1], fault)
       IN  /\ chk \in {"unsafe"} \cup CaughtByCheck
           /\ iterations' = Append(iterations, IF chk = "unsafe" THEN "unsafe" ELSE "invalid")
    /\ idx' = idx + 1
    /\ ex_pc' = "returned"
    /\ UNCHANGED <<fs, archive, extracted_files, ex_error, written>>
    /\ UNCHANGED <<dlVars, coVars>>

\* Lines 131-133 and 135-138: the member is skipped with a warning.
SkipMember(fault) ==
    /\ ex_pc = "loop"
    /\ idx < Len(archive.members)
    /\ LET chk == PathCheck(fs, archive.members[idx + 1], fault)
       IN  /\ chk \in {"unsafe"} \cup CaughtByCheck
           /\ iterations' = Append(iterations, IF chk = "unsafe" THEN "unsafe" ELSE "invalid")
    /\ idx' = idx + 1
    /\ UNCHANGED <<fs, ex_pc, archive, extracted_files, ex_error, written>>
    /\ UNCHANGED <<dlVars, coVars>>

\* An exception of the check that the loop does not catch leaves the call.
CheckAborts(fault) ==
    /\ ex_pc = "loop"
    /\ idx < Len(archive.members)
    /\ LET chk == PathCheck(fs, archive.members[idx + 1], fault)
       IN  /\ chk \notin {"safe", "unsafe"} \cup CaughtByCheck
           /\ ex_error' = Raised(chk, "check")
    /\ ex_pc' = "raised"
    /\ UNCHANGED <<fs, archive, idx, extracted_files, iterations, written>>
    /\ UNCHANGED <<dlVars, coVars>>

\* Lines 140-141 and 145-147: the member passed the check and is extracted;
\* BadZipFile becomes SourceSchemaError, any other exception leaves as it is.
ExtractMember(defect) ==
    /\ ex_pc = "loop"
    /\ idx < Len(archive.members)
    /\ LET m == archive.members[idx + 1]
           res == ZipExtract(fs, m, defect)
       IN  /\ PathCheck(fs, m, "none") = "safe"
           /\ fs' = res.fs
           /\ written' = written \cup res.wrote
           /\ IF res.outcome = "ok"
              THEN /\ extracted_files' = Append(extracted_files, TargetPath(m))
                   /\ iterations' = Append(iterations, "extracted")
                   /\ idx' = idx + 1
                   /\ UNCHANGED <<ex_pc, ex_error>>
              ELSE /\ ex_pc' = "raised"
                   /\ ex_error' = Raised(IF res.outcome = "BadZipFile"
                                         THEN "SourceSchemaError" ELSE res.outcome,
                                         "extract")
                   /\ UNCHANGED <<extracted_files, iterations, idx>>
    /\ UNCHANGED archive
    /\ UNCHANGED <<dlVars, coVars>>

\* Lines 143-144: the loop is over and the list is returned.
ExtractArchiveReturn ==
    /\ ex_pc = "loop"
    /\ idx = Len(archive.members)
    /\ ex_pc' = "returned"
    /\ UNCHANGED <<fs, archive, idx, extracted_files, iterations, ex_error, written>>
    /\ UNCHANGED <<dlVars, coVars>>

NoArchive == [exists |-> FALSE, valid |-> FALSE, members |-> <<>>]

\* The call is over: its caller holds the list or the exception, and the
\* frame's locals are gone.  The filesystem stays as the call left it.
ExtractArchiveEnd ==
    /\ ex_pc \in {"returned", "raised"}
    /\ ex_pc' = "idle"
    /\ archive' = NoArchive
    /\ idx' = 0
    /\ extracted_files' = <<>>
    /\ iterations' = <<>>
    /\ ex_error' = NoError
    /\ written' = {}
    /\ UNCHANGED fs
    /\ UNCHANGED <<dlVars, coVars>>

------------------------------------------------------------------------------
(* The HTTP exchange of download_archive *)

\* A URL as the words of its host, its path and its query string; a text
\* occurs in the URL when it occurs in one of them.
Url(host, path, query) == [host |-> host, path |-> path, query |-> query]

CleanUrl == Url(<<"www", "fda", "gov">>, <<"media", "76860", "download">>, <<"attachment">>)
AbusePathUrl == Url(<<"www", "fda", "gov">>, <<"abuse", "detection">>, <<>>)
ApologyPathUrl == Url(<<"www", "fda", "gov">>, <<"apology">>, <<>>)
AbuseHostUrl == Url(<<"abuse", "fda", "gov">>, <<"media", "76860", "download">>, <<>>)
ApologyQueryUrl == Url(<<"www", "fda", "gov">>, <<"media", "76860", "download">>, <<"apology">>)

FinalUrls == {CleanUrl, AbusePathUrl, ApologyPathUrl, AbuseHostUrl, ApologyQueryUrl}

\* `text in response.url`: a substring test on the whole URL.
InUrl(text, url) == text \in Range(url.host) \cup Range(url.path) \cup Range(url.query)

InUrlPath(text, url) == text \in Range(url.path)

Statuses == {200, 204, 304, 403, 404, 500}

Chunks == {"a", "b"}

\* A response: its status, its final URL, and its body as the chunks
\* iter_content yields, after which the iterator ends or raises.
Responses ==
    [status : Statuses, url : FinalUrls,
     body : SeqsUpTo(Chunks, MaxChunks), ends : {"eof", "RequestsError"}]

NoResponse == [status |-> 0, url |-> Url(<<>>, <<>>, <<>>), body |-> <<>>, ends |-> "eof"]

\* The one request of line 57.
Request(url) ==
    [method |-> "GET", url |-> url, impersonate |-> "chrome120",
     headers |-> {"Referer", "Accept", "Accept-Language"}, stream |-> TRUE]

\* Line 70: the block-page test.
BlockPage(r) == InUrl("abuse", r.url) \/ InUrl("apology", r.url)

\* response.raise_for_status() of the HTTP client: an error for a status of
\* 400 and above (the client's `ok` is 200 <= status < 400).
RaiseForStatusRaises(r) == r.status >= 400

NoDlError == [kind |-> "none", cause |-> "none"]
DlRaised(kind, cause) == [kind |-> kind, cause |-> cause]

AbsentFile == [exists |-> FALSE, data |-> <<>>]
FileWith(data) == [exists |-> TRUE, data |-> data]

\* The wrapping without `from e`: the cause is lost.
WrapRequestsError_no_cause == DlRaised("SourceConnectionError", "none")

\* Lines 88-90: a RequestsError from anywhere in the try block.
WrapRequestsError == DlRaised("SourceConnectionError", "RequestsError")

\* The status tests placed before the block-page test.
ResponseCheck_status_first(r) ==
    IF r.status = 404 THEN "SourceSchemaError"
    ELSE IF r.status = 403 THEN "SourceConnectionError"
    ELSE IF BlockPage(r) THEN "SourceConnectionError"
    ELSE IF RaiseForStatusRaises(r) THEN "RequestsError"
    ELSE "none"

\* Lines 69-80: the exception the checks on the response raise inside the
\* try block, if any; raise_for_status raises the client's RequestsError.
ResponseCheck(r) ==
    IF BlockPage(r) THEN "SourceConnectionError"
    ELSE IF r.status = 404 THEN "SourceSchemaError"
    ELSE IF r.status = 403 THEN "SourceConnectionError"
    ELSE IF RaiseForStatusRaises(r) THEN "RequestsError"
    ELSE "none"

\* A failed request that is issued a second time.
DownloadRequestFails_retry ==
    /\ dl_pc = "idle"
    /\ parent_exists' = TRUE
    /\ gets' = Append(Append(gets, Request(base_url)), Request(base_url))
    /\ client_error' = "RequestsError"
    /\ dl_pc' = "raised"
    /\ dl_error' = WrapRequestsError
    /\ UNCHANGED <<base_url, response, received, dest_file>>
    /\ UNCHANGED <<exVars, coVars>>

\* Lines 52-57: the parent directory is made and the request issued; the
\* client raises instead of answering.
DownloadRequestFails ==
    /\ dl_pc = "idle"
    /\ parent_exists' = TRUE
    /\ gets' = Append(gets, Request(base_url))
    /\ client_error' = "RequestsError"
    /\ dl_pc' = "raised"
    /\ dl_error' = WrapRequestsError
    /\ UNCHANGED <<base_url, response, received, dest_file>>
    /\ UNCHANGED <<exVars, coVars>>

\* The destination opened for appending: what it held stays in front.
DownloadArchiveBegin_append(r, open_ok) ==
    /\ dl_pc = "idle"
    /\ parent_exists' = TRUE
    /\ gets' = Append(gets, Request(base_url))
    /\ response' = r
    /\ LET chk == ResponseCheck(r)
       IN  IF chk = "RequestsError"
           THEN /\ dl_pc' = "raised"
                /\ client_error' = "RequestsError"
                /\ dl_error' = WrapRequestsError
                /\ UNCHANGED dest_file
           ELSE IF chk # "none"
           THEN /\ dl_pc' = "raised"
                /\ dl_error' = DlRaised(chk, "none")
                /\ UNCHANGED <<client_error, dest_file>>
           ELSE IF ~open_ok
           THEN /\ dl_pc' = "raised"
                /\ dl_error' = DlRaised("OSError", "none")
                /\ UNCHANGED <<client_error, dest_file>>
           ELSE /\ dl_pc' = "streaming"
                /\ dest_file' = FileWith(dest_file.data)
                /\ UNCHANGED <<client_error, dl_error>>
    /\ UNCHANGED <<base_url, received>>
    /\ UNCHANGED <<exVars, coVars>>

\* The destination opened for writing before the response is checked.
DownloadArchiveBegin_open_first(r, open_ok) ==
    /\ dl_pc = "idle"
    /\ parent_exists' = TRUE
    /\ gets' = Append(gets, Request(base_url))
    /\ response' = r
    /\ LET chk == ResponseCheck(r)
       IN  IF ~open_ok
           THEN /\ dl_pc' = "raised"
                /\ dl_error' = DlRaised("OSError", "none")
                /\ UNCHANGED <<client_error, dest_file>>
           ELSE /\ dest_file' = FileWith(<<>>)
                /\ IF chk = "RequestsError"
                   THEN /\ dl_pc' = "raised"
                        /\ client_error' = "RequestsError"
                        /\ dl_error' = WrapRequestsError
                   ELSE IF chk # "none"
                   THEN /\ dl_pc' = "raised"
                        /\ dl_error' = DlRaised(chk, "none")
                        /\ UNCHANGED client_error
                   ELSE /\ dl_pc' = "streaming"
                        /\ UNCHANGED <<client_error, dl_error>>
    /\ UNCHANGED <<base_url, received>>
    /\ UNCHANGED <<exVars, coVars>>

\* Lines 52-82: the request is answered; the response is checked and, when
\* it passes, the destination is opened for writing (created or truncated).
\* open() itself can fail with an OSError, which nothing here catches.
DownloadArchiveBegin(r, open_ok) ==
    /\ dl_pc = "idle"
    /\ parent_exists' = TRUE
    /\ gets' = Append(gets, Request(base_url))
    /\ response' = r
    /\ LET chk == ResponseCheck(r)
       IN  IF chk = "RequestsError"
           THEN /\ dl_pc' = "raised"
                /\ client_error' = "RequestsError"
                /\ dl_error' = WrapRequestsError
                /\ UNCHANGED dest_file
           ELSE IF chk # "none"
           THEN /\ dl_pc' = "raised"
                /\ dl_error' = DlRaised(chk, "none")
                /\ UNCHANGED <<client_error, dest_file>>
           ELSE IF ~open_ok
           THEN /\ dl_pc' = "raised"
                /\ dl_error' = DlRaised("OSError", "none")
                /\ UNCHANGED <<client_error, dest_file>>
           ELSE /\ dl_pc' = "streaming"
                /\ dest_file' = FileWith(<<>>)
                /\ UNCHANGED <<client_error, dl_error>>
    /\ UNCHANGED <<base_url, received>>
    /\ UNCHANGED <<exVars, coVars>>

\* Lines 83-84: one chunk arrives and is written.
DownloadChunk ==
    /\ dl_pc = "streaming"
    /\ received < Len(response.body)
    /\ dest_file' = FileWith(Append(dest_file.data, response.body[received + 1]))
    /\ received' = received + 1
    /\ UNCHANGED <<base_url, dl_pc, gets, response, client_error, parent_exists, dl_error>>
    /\ UNCHANGED <<exVars, coVars>>

\* Lines 83 and 88-90: the stream breaks after the chunks it delivered.
DownloadStreamFails ==
    /\ dl_pc = "streaming"
    /\ received = Len(response.body)
    /\ response.ends = "RequestsError"
    /\ client_error' = "RequestsError"
    /\ dl_pc' = "raised"
    /\ dl_error' = WrapRequestsError
    /\ UNCHANGED <<base_url, gets, response, received, parent_exists, dest_file>>
    /\ UNCHANGED <<exVars, coVars>>

\* Line 86: the stream ended and the call returns.
DownloadArchiveReturn ==
    /\ dl_pc = "streaming"
    /\ received = Len(response.body)
    /\ response.ends = "eof"
    /\ dl_pc' = "returned"
    /\ UNCHANGED <<base_url, gets, response, client_error, received, parent_exists,
                   dest_file, dl_error>>
    /\ UNCHANGED <<exVars, coVars>>

\* The call is over; the file stays as the call left it.
DownloadArchiveEnd ==
    /\ dl_pc \in {"returned", "raised"}
    /\ dl_pc' = "idle"
    /\ gets' = <<>>
    /\ response' = NoResponse
    /\ client_error' = "none"
    /\ received' = 0
    /\ dl_error' = NoDlError
    /\ UNCHANGED <<base_url, parent_exists, dest_file>>
    /\ UNCHANGED <<exVars, coVars>>

------------------------------------------------------------------------------
(* Role resolution: FdaOrangeBookSource.resolve_product_files *)

\* Longest list of extracted files handed to resolve_product_files.
MaxFiles == 3

\* A base name is its letters (written here in lower case) and how they are
\* capitalised in the spelling the file really has.
Name(letters, caps) == [letters |-> letters, caps |-> caps]

\* str.lower(): the same letters, none of them a capital.
lower_identity(n) == n

lower(n) == Name(n.letters, "lower")

\* FdaConfig.FILE_PRODUCTS, FILE_PATENTS, FILE_EXCLUSIVITY.
FILE_PRODUCTS == Name("products.txt", "lower")

FILE_PATENTS_plural == Name("patents.txt", "lower")

FILE_PATENTS == Name("patent.txt", "lower")

FILE_EXCLUSIVITY == Name("exclusivity.txt", "lower")

\* The fallback product files, in the order the code looks for them.
components == << Name("rx.txt", "lower"), Name("otc.txt", "lower"), Name("disc.txt", "lower") >>

\* A path of the extracted_files list: its directory and its base name.
FilePath(dir, letters, caps) == [dir |-> dir, name |-> Name(letters, caps)]

\* The paths the lists are drawn from: every role's file in more than one
\* spelling, a same-named file in a subdirectory, and a file of no role.
ExtractedPaths ==
    { FilePath("extracted", "products.txt", "lower"),
      FilePath("extracted", "products.txt", "upper"),
      FilePath("extracted/sub", "products.txt", "mixed"),
      FilePath("extracted", "rx.txt", "lower"),
      FilePath("extracted", "rx.txt", "upper"),
      FilePath("extracted", "otc.txt", "lower"),
      FilePath("extracted", "disc.txt", "mixed"),
      FilePath("extracted", "patent.txt", "lower"),
      FilePath("extracted", "patent.txt", "upper"),
      FilePath("extracted", "exclusivity.txt", "lower"),
      FilePath("extracted", "exclusivity.txt", "mixed"),
      FilePath("extracted", "readme.txt", "lower") }

FileLists == SeqsUpTo(ExtractedPaths, MaxFiles)

\* A map in which the first file under a key stays.
name_map_first(files) ==
    [k \in {lower(files[i].name) : i \in DOMAIN files} |->
        files[CHOOSE i \in DOMAIN files :
                  /\ lower(files[i].name) = k
                  /\ \A j \in DOMAIN files : j < i => lower(files[j].name) # k]]

\* name_map = {f.name.lower(): f for f in extracted_files}: a later file
\* replaces an earlier one under the same key.
name_map(files) ==
    [k \in {lower(files[i].name) : i \in DOMAIN files} |->
        files[CHOOSE i \in DOMAIN files :
                  /\ lower(files[i].name) = k
                  /\ \A j \in DOMAIN files : j > i => lower(files[j].name) # k]]

\* found_components: the components that are keys of name_map, in the order
\* of the components list.
RECURSIVE found_components(_, _)
found_components(nm, comps) ==
    IF comps = <<>> THEN <<>>
    ELSE (IF Head(comps) \in DOMAIN nm THEN <<nm[Head(comps)]>> ELSE <<>>)
             \o found_components(nm, Tail(comps))

\* The condition under which "Missing required product files" is raised.
MissingProducts_no_fallback(nm) == lower(FILE_PRODUCTS) \notin DOMAIN nm

MissingProducts(nm) ==
    /\ lower(FILE_PRODUCTS) \notin DOMAIN nm
    /\ found_components(nm, components) = <<>>

\* mapping["products"]: the canonical file, else the components found.
ProductsRole_with_components(nm) ==
    (IF lower(FILE_PRODUCTS) \in DOMAIN nm THEN <<nm[lower(FILE_PRODUCTS)]>> ELSE <<>>)
        \o found_components(nm, components)

ProductsRole(nm) ==
    IF lower(FILE_PRODUCTS) \in DOMAIN nm
    THEN <<nm[lower(FILE_PRODUCTS)]>>
    ELSE found_components(nm, components)

\* mapping["patent"] and mapping["exclusivity"]: the file under the key, or
\* nothing (with a warning).
OptionalRole(nm, fname) ==
    IF lower(fname) \in DOMAIN nm THEN <<nm[lower(fname)]>> ELSE <<>>

NoMapping == [none |-> TRUE]

NoResolveError == [kind |-> "none", message |-> ""]

\* The value or the exception of resolve_product_files(files).
resolve_product_files(files) ==
    LET nm == name_map(files) IN
    IF MissingProducts(nm)
    THEN [raises |-> "SourceSchemaError",
          message |-> "Missing required product files",
          mapping |-> NoMapping]
    ELSE [raises |-> "none",
          message |-> "",
          mapping |-> [products |-> ProductsRole(nm),
                       patent |-> OptionalRole(nm, FILE_PATENTS),
                       exclusivity |-> OptionalRole(nm, FILE_EXCLUSIVITY)]]

\* One call of resolve_product_files.
ResolveProductFiles(files) ==
    /\ rs_pc = "idle"
    /\ rs_files' = files
    /\ LET out == resolve_product_files(files) IN
           /\ rs_pc' = IF out.raises = "none" THEN "returned" ELSE "raised"
           /\ rs_mapping' = out.mapping
           /\ rs_error' = [kind |-> out.raises, message |-> out.message]
    /\ UNCHANGED <<exVars, dlVars, clVars, gvVars, hsVars, rpVars, bzVars>>

\* The caller is done with the result.
ResolveEnd ==
    /\ rs_pc # "idle"
    /\ rs_pc' = "idle"
    /\ rs_files' = <<>>
    /\ rs_mapping' = NoMapping
    /\ rs_error' = NoResolveError
    /\ UNCHANGED <<exVars, dlVars, clVars, gvVars, hsVars, rpVars, bzVars>>

------------------------------------------------------------------------------
(* Content hashing: FdaOrangeBookSource.calculate_file_hash *)

\* FdaOrangeBookSource.CHUNK_SIZE, scaled down from 8192 bytes so that files
\* shorter than, equal to, a multiple of and longer than one chunk are small.
CHUNK_SIZE == 2

\* Longest file content, in bytes.
MaxFileLen == 5

\* The byte values file contents are made of.
Bytes == {0, 1}

RECURSIVE ByteSeqs(_)
ByteSeqs(n) ==
    IF n = 0 THEN {<<>>}
    ELSE LET shorter == ByteSeqs(n - 1)
         IN  shorter \cup {Append(s, b) : s \in {t \in shorter : Len(t) = n - 1}, b \in Bytes}

\* What file_path can lead to: nothing, a directory, a regular file.
HashFiles ==
    {[kind |-> "absent", data |-> <<>>], [kind |-> "dir", data |-> <<>>]}
        \cup {[kind |-> "file", data |-> d] : d \in ByteSeqs(MaxFileLen)}

\* hashlib.md5 through the interface the code uses: md5() gives the initial
\* state, update(chunk) absorbs the chunk's bytes in order, hexdigest() writes
\* the state in lowercase hexadecimal.  The state is one byte wide here; the
\* compression step stands in for MD5's.
Md5Width == 256

md5 == 7

RECURSIVE update(_, _)
update(h, chunk) ==
    IF chunk = <<>> THEN h
    ELSE update((h * 31 + Head(chunk) + 1) % Md5Width, Tail(chunk))

HexDigits == <<"0", "1", "2", "3", "4", "5", "6", "7",
               "8", "9", "a", "b", "c", "d", "e", "f">>

hexdigest(h) == <<HexDigits[(h \div 16) + 1], HexDigits[(h % 16) + 1]>>

\* The exceptions that are OSError or a subclass of it.
OSErrors == {"OSError", "PermissionError", "IsADirectoryError", "FileNotFoundError"}

NoHashError == [kind |-> "none", cause |-> "none", stage |-> "none"]
HashRaised(kind, cause, stage) == [kind |-> kind, cause |-> cause, stage |-> stage]

\* Lines 174-176: an OSError inside the try block is logged and re-raised
\* as SourceConnectionError from it.
WrapOSError(e, stage) == HashRaised("SourceConnectionError", e, stage)

\* What the environment does to the call: nothing; stat() on the path is
\* refused (a directory on the way is not searchable); open() is refused;
\* the file is removed between the existence test and open().
HashFaults == {"none", "stat_denied", "open_denied", "removed"}

NoPrev == [known |-> FALSE, data |-> <<>>, digest |-> <<>>]

\* f.read(CHUNK_SIZE) at the current position.
NextChunk ==
    SubSeq(hs_file.data, hs_pos + 1,
           IF hs_pos + CHUNK_SIZE < Len(hs_file.data) THEN hs_pos + CHUNK_SIZE
           ELSE Len(hs_file.data))

\* Lines 162-168: the existence test, hashlib.md5(), open(file_path, "rb").
\* Path.exists() answers False when stat() fails with ENOENT, ENOTDIR, EBADF
\* or ELOOP and re-raises any other OSError; it is called outside the try.
HashBegin(file, fault) ==
    /\ hs_pc = "idle"
    /\ hs_file' = file
    /\ hs_pos' = 0
    /\ hs_reads' = <<>>
    /\ hs_digest' = <<>>
    /\ hs_md5' = md5
    /\ IF fault = "stat_denied"
       THEN hs_pc' = "raised" /\ hs_error' = HashRaised("PermissionError", "none", "exists")
       ELSE IF file.kind = "absent"
       THEN hs_pc' = "raised"
            /\ hs_error' = HashRaised("SourceConnectionError", "none", "exists")
       ELSE IF fault = "removed"
       THEN hs_pc' = "raised" /\ hs_error' = WrapOSError("FileNotFoundError", "open")
       ELSE IF fault = "open_denied"
       THEN hs_pc' = "raised" /\ hs_error' = WrapOSError("PermissionError", "open")
       ELSE IF file.kind = "dir"
       THEN hs_pc' = "raised" /\ hs_error' = WrapOSError("IsADirectoryError", "open")
       ELSE hs_pc' = "reading" /\ hs_error' = NoHashError
    /\ UNCHANGED <<hs_prev, exVars, dlVars, clVars, gvVars, rsVars, rpVars, bzVars>>

\* A loop that takes a chunk shorter than CHUNK_SIZE for the end of the file
\* and leaves without absorbing it.
HashRead_stop_at_short(read_ok) ==
    /\ hs_pc = "reading"
    /\ hs_reads' = Append(hs_reads, Len(NextChunk))
    /\ IF ~read_ok
       THEN /\ hs_pc' = "raised"
            /\ hs_error' = WrapOSError("OSError", "read")
            /\ UNCHANGED <<hs_pos, hs_md5, hs_digest>>
       ELSE IF Len(NextChunk) < CHUNK_SIZE
       THEN /\ hs_pc' = "returned"
            /\ hs_digest' = hexdigest(hs_md5)
            /\ UNCHANGED <<hs_pos, hs_md5, hs_error>>
       ELSE /\ hs_md5' = update(hs_md5, NextChunk)
            /\ hs_pos' = hs_pos + Len(NextChunk)
            /\ UNCHANGED <<hs_pc, hs_digest, hs_error>>
    /\ UNCHANGED <<hs_file, hs_prev, exVars, dlVars, clVars, gvVars, rsVars, rpVars, bzVars>>

\* Lines 169-173: one f.read(CHUNK_SIZE) of iter(..., b""); the empty chunk
\* ends the loop and the digest is returned, any other chunk is absorbed.
HashRead(read_ok) ==
    /\ hs_pc = "reading"
    /\ hs_reads' = Append(hs_reads, Len(NextChunk))
    /\ IF ~read_ok
       THEN /\ hs_pc' = "raised"
            /\ hs_error' = WrapOSError("OSError", "read")
            /\ UNCHANGED <<hs_pos, hs_md5, hs_digest>>
       ELSE IF NextChunk = <<>>
       THEN /\ hs_pc' = "returned"
            /\ hs_digest' = hexdigest(hs_md5)
            /\ UNCHANGED <<hs_pos, hs_md5, hs_error>>
       ELSE /\ hs_md5' = update(hs_md5, NextChunk)
            /\ hs_pos' = hs_pos + Len(NextChunk)
            /\ UNCHANGED <<hs_pc, hs_digest, hs_error>>
    /\ UNCHANGED <<hs_file, hs_prev, exVars, dlVars, clVars, gvVars, rsVars, rpVars, bzVars>>

\* The caller has the digest or the exception; a digest is remembered with
\* the content it was computed from.
HashEnd ==
    /\ hs_pc \in {"returned", "raised"}
    /\ hs_prev' = IF hs_pc = "returned"
                  THEN [known |-> TRUE, data |-> hs_file.data, digest |-> hs_digest]
                  ELSE hs_prev
    /\ hs_pc' = "idle"
    /\ hs_file' = [kind |-> "absent", data |-> <<>>]
    /\ hs_pos' = 0
    /\ hs_md5' = md5
    /\ hs_reads' = <<>>
    /\ hs_digest' = <<>>
    /\ hs_error' = NoHashError
    /\ UNCHANGED <<exVars, dlVars, clVars, gvVars, rsVars, rpVars, bzVars>>

------------------------------------------------------------------------------
(* The pipeline run: main.run_pipeline *)

\* The statements of run_pipeline that call out, in program order, each
\* with the object called and the exceptions it can raise.
Stages ==
    << [call |-> "download_dir.mkdir", on |-> "path", raises |-> {"OSError"}],
       [call |-> "download_archive", on |-> "source",
        raises |-> {"SourceConnectionError", "SourceSchemaError", "OSError"}],
       [call |-> "extracted_dir.mkdir", on |-> "path", raises |-> {"OSError"}],
       [call |-> "extract_archive", on |-> "source",
        raises |-> {"SourceConnectionError", "SourceSchemaError", "OSError"}],
       [call |-> "resolve_product_files", on |-> "source", raises |-> {"SourceSchemaError"}],
       [call |-> "pipeline.run(bronze)", on |-> "dlt", raises |-> {"PipelineStepFailed"}],
       [call |-> "pipeline_silver.run", on |-> "dlt", raises |-> {"PipelineStepFailed"}],
       [call |-> "pipeline_gold.run", on |-> "dlt", raises |-> {"PipelineStepFailed"}] >>

\* The argument each call is given.
StageArgument(call) ==
    CASE call \in {"download_dir.mkdir"} -> "download_dir"
      [] call = "download_archive" -> "download_dir/orange_book.zip"
      [] call \in {"extracted_dir.mkdir", "extract_archive"} -> "download_dir/extracted"
      [] call = "resolve_product_files" -> "extracted_files"
      [] OTHER -> "files_map"

\* What a call leaves on disk when it succeeds.
StageArtifacts(call) ==
    CASE call = "download_dir.mkdir" -> {"download_dir"}
      [] call = "download_archive" -> {"download_dir/orange_book.zip"}
      [] call = "extracted_dir.mkdir" -> {"download_dir/extracted"}
      [] call = "extract_archive" -> {"download_dir/extracted/files"}
      [] OTHER -> {}

\* The download directory as a run finds it: absent, empty, or holding the
\* archive of an earlier run.
InitialDisks == {{}, {"download_dir"}, {"download_dir", "download_dir/orange_book.zip"}}

NoPipelineError == [kind |-> "none", stage |-> "none"]
NoRun == [base_url |-> "", download_dir |-> "none"]

\* Lines 64-66: run_pipeline(base_url, download_dir) builds its source.
RunPipelineBegin(url) ==
    /\ rp_pc = "idle"
    /\ rp_pc' = "running"
    /\ rp_args' = [base_url |-> url, download_dir |-> "download_dir"]
    /\ rp_stage' = 0
    /\ rp_calls' = <<[call |-> "FdaOrangeBookSource", on |-> "source", arg |-> url]>>
    /\ rp_error' = NoPipelineError
    /\ rp_exit' = "none"
    /\ UNCHANGED <<rp_disk, exVars, dlVars, clVars, gvVars, rsVars, hsVars, bzVars>>

\* The next statement of lines 69-129: it returns, or it raises and the
\* exception leaves run_pipeline (no try statement encloses the stages); a
\* failed download or extraction may leave part of its output behind.
RunPipelineStage(ok, partial) ==
    /\ rp_pc = "running"
    /\ rp_stage < Len(Stages)
    /\ LET st == Stages[rp_stage + 1] IN
           /\ rp_calls' = Append(rp_calls, [call |-> st.call, on |-> st.on,
                                            arg |-> StageArgument(st.call)])
           /\ rp_stage' = rp_stage + 1
           /\ IF ok
              THEN /\ rp_disk' = rp_disk \cup StageArtifacts(st.call)
                   /\ UNCHANGED <<rp_pc, rp_error>>
              ELSE /\ rp_pc' = "failed"
                   /\ \E e \in st.raises : rp_error' = [kind |-> e, stage |-> st.call]
                   /\ rp_disk' = IF partial /\ st.on = "source"
                                 THEN rp_disk \cup StageArtifacts(st.call)
                                 ELSE rp_disk
    /\ UNCHANGED <<rp_args, rp_exit, exVars, dlVars, clVars, gvVars, rsVars, hsVars, bzVars>>

\* Line 132: "Pipeline completed successfully."
RunPipelineReturn ==
    /\ rp_pc = "running"
    /\ rp_stage = Len(Stages)
    /\ rp_pc' = "done"
    /\ UNCHANGED <<rp_args, rp_stage, rp_calls, rp_disk, rp_error, rp_exit,
                   exVars, dlVars, clVars, gvVars, rsVars, hsVars, bzVars>>

\* An except clause that logs the failure and lets main return.
MainExcept_returns ==
    /\ rp_pc = "failed"
    /\ rp_pc' = "exited"
    /\ rp_exit' = "returns"
    /\ UNCHANGED <<rp_args, rp_stage, rp_calls, rp_disk, rp_error,
                   exVars, dlVars, clVars, gvVars, rsVars, hsVars, bzVars>>

\* main, lines 142-146: every stage failure is an Exception; main logs it and
\* calls sys.exit(1).
MainExcept ==
    /\ rp_pc = "failed"
    /\ rp_pc' = "exited"
    /\ rp_exit' = "sys.exit(1)"
    /\ UNCHANGED <<rp_args, rp_stage, rp_calls, rp_disk, rp_error,
                   exVars, dlVars, clVars, gvVars, rsVars, hsVars, bzVars>>

\* main, line 143: run_pipeline returned and main returns after it.
MainReturns ==
    /\ rp_pc = "done"
    /\ rp_pc' = "exited"
    /\ rp_exit' = "returns"
    /\ UNCHANGED <<rp_args, rp_stage, rp_calls, rp_disk, rp_error,
                   exVars, dlVars, clVars, gvVars, rsVars, hsVars, bzVars>>

\* The process ends; the next run finds the disk as this one left it.
RunPipelineEnd ==
    /\ rp_pc = "exited"
    /\ rp_pc' = "idle"
    /\ rp_args' = NoRun
    /\ rp_stage' = 0
    /\ rp_calls' = <<>>
    /\ rp_error' = NoPipelineError
    /\ rp_exit' = "none"
    /\ UNCHANGED <<rp_disk, exVars, dlVars, clVars, gvVars, rsVars, hsVars, bzVars>>

------------------------------------------------------------------------------
(* Bronze ingestion: bronze.ingestion.yield_bronze_records *)

\* Most files listed under one role of files_map.
MaxListed == 1

\* The paths listed in files_map.
BronzePaths ==
    { FilePath("extracted", "products.txt", "lower"),
      FilePath("extracted/sub", "patent.txt", "upper") }

\* files_map.items(): the roles in the order resolve_product_files inserts
\* them, each with its list of paths.
FilesMaps ==
    { << [role |-> "products", files |-> a], [role |-> "patent", files |-> b],
         [role |-> "exclusivity", files |-> c] >> :
          a \in SeqsUpTo(BronzePaths, MaxListed),
          b \in SeqsUpTo(BronzePaths, MaxListed),
          c \in SeqsUpTo(BronzePaths, MaxListed) }

\* The (role, file_path) pairs in the order the two nested loops visit them.
RECURSIVE Listing(_)
Listing(items) ==
    IF items = <<>> THEN <<>>
    ELSE [i \in DOMAIN Head(items).files |->
             [role |-> Head(items).role, path |-> Head(items).files[i]]]
         \o Listing(Tail(items))

\* What source.calculate_file_hash can return for a file.
Digests == {"9e107d9d", "e4d909c2"}

\* The lines a file can hold, and line.strip() of each.
LineTexts == {"x", " y ", " ", "", "bad \\x80 byte"}

\* FdaConfig.ENCODING_ERRORS, the errors argument of open().
ENCODING_ERRORS == "replace"

\* Decoding a line's bytes as UTF-8: valid bytes give their text; a byte
\* that is no valid UTF-8 raises UnicodeDecodeError under "strict" and
\* becomes U+FFFD under "replace".
decode(raw, errors) ==
    IF raw = "bad \\x80 byte"
    THEN IF errors = "replace" THEN [raises |-> FALSE, text |-> "bad \\ufffd byte"]
         ELSE [raises |-> TRUE, text |-> ""]
    ELSE [raises |-> FALSE, text |-> raw]

strip(line) == CASE line = " y " -> "y" [] line = " " -> "" [] OTHER -> line

\* The contents a file is read with: no line; data, a blank line, padded
\* data; a single empty line.
Contents == {<<>>, <<"x", " ", " y ">>, <<"">>, <<"bad \\x80 byte", "x">>}

\* datetime.now(timezone.utc).isoformat() of the run.
IngestionTs == "2026-01-01T00:00:00+00:00"

\* Lines 59-68: the record yielded for a non-blank line.
BronzeRecord(listed, source_hash, line_idx, line_content) ==
    [source_file |-> listed.path.name,
     ingestion_ts |-> IngestionTs,
     source_hash |-> source_hash,
     raw_content |-> [line_number |-> line_idx, data |-> line_content],
     role |-> listed.role]

\* Lines 49 and 70: what logger.error records of a failure: the position of
\* the file in the iteration and the step that raised.
Logged(k, stage) == [file |-> k, stage |-> stage]

\* Nothing was logged as an error.
NoLogged == Logged(0, "none")

\* Line 39: the generator is started on a files_map.
BronzeBegin(items) ==
    /\ bz_pc = "idle"
    /\ bz_pc' = "next"
    /\ bz_map' = items
    /\ bz_k' = 0
    /\ bz_hash_calls' = <<>>
    /\ bz_hash' = "none"
    /\ bz_lines' = <<>>
    /\ bz_line' = 0
    /\ bz_out' = <<>>
    /\ bz_log' = NoLogged
    /\ UNCHANGED <<exVars, dlVars, clVars, gvVars, rsVars, hsVars, rpVars>>

\* A loop that reuses the digest of the file before when the same path is
\* listed again, without calling calculate_file_hash.
BronzeHash_cached(outcome) ==
    /\ bz_pc = "next"
    /\ bz_k < Len(Listing(bz_map))
    /\ bz_k' = bz_k + 1
    /\ bz_lines' = <<>>
    /\ bz_line' = 0
    /\ bz_out' = <<>>
    /\ LET again == /\ bz_k >= 1
                    /\ bz_hash # "none"
                    /\ Listing(bz_map)[bz_k].path = Listing(bz_map)[bz_k + 1].path
       IN  /\ bz_hash_calls' = IF again THEN bz_hash_calls
                               ELSE Append(bz_hash_calls, Listing(bz_map)[bz_k + 1].path)
           /\ IF again THEN bz_pc' = "open" /\ UNCHANGED bz_hash
              ELSE IF outcome = "raises" THEN bz_pc' = "next" /\ bz_hash' = "none"
              ELSE bz_pc' = "open" /\ bz_hash' = outcome
           /\ bz_log' = IF ~again /\ outcome = "raises"
                        THEN Logged(bz_k + 1, "hash")
                        ELSE bz_log
    /\ UNCHANGED <<bz_map, exVars, dlVars, clVars, gvVars, rsVars, hsVars, rpVars>>

\* Lines 41-50: the loops reach the next listed file and call
\* source.calculate_file_hash(file_path); if it raises, the file is skipped.
BronzeHash(outcome) ==
    /\ bz_pc = "next"
    /\ bz_k < Len(Listing(bz_map))
    /\ bz_k' = bz_k + 1
    /\ bz_hash_calls' = Append(bz_hash_calls, Listing(bz_map)[bz_k + 1].path)
    /\ bz_lines' = <<>>
    /\ bz_line' = 0
    /\ bz_out' = <<>>
    /\ IF outcome = "raises"
       THEN /\ bz_pc' = "next"
            /\ bz_hash' = "none"
            /\ bz_log' = Logged(bz_k + 1, "hash")
       ELSE bz_pc' = "open" /\ bz_hash' = outcome /\ UNCHANGED bz_log
    /\ UNCHANGED <<bz_map, exVars, dlVars, clVars, gvVars, rsVars, hsVars, rpVars>>

\* An open() whose failure leaves the generator as an exception.
BronzeOpen_propagates(open_ok, content) ==
    /\ bz_pc = "open"
    /\ IF open_ok
       THEN bz_pc' = "reading" /\ bz_lines' = content
       ELSE bz_pc' = "raised" /\ bz_lines' = <<>>
    /\ UNCHANGED <<bz_map, bz_k, bz_hash_calls, bz_hash, bz_line, bz_out, bz_log,
                   exVars, dlVars, clVars, gvVars, rsVars, hsVars, rpVars>>

\* Lines 52-53 and 69-71: open(file_path, "r", ...); a failure is logged and
\* the loop goes on to the next file.
BronzeOpen(open_ok, content) ==
    /\ bz_pc = "open"
    /\ IF open_ok
       THEN bz_pc' = "reading" /\ bz_lines' = content /\ UNCHANGED bz_log
       ELSE /\ bz_pc' = "next"
            /\ bz_lines' = <<>>
            /\ bz_log' = Logged(bz_k, "open")
    /\ UNCHANGED <<bz_map, bz_k, bz_hash_calls, bz_hash, bz_line, bz_out,
                   exVars, dlVars, clVars, gvVars, rsVars, hsVars, rpVars>>

\* A loop that numbers the records instead of the lines.
BronzeLine_count_records(read_ok) ==
    /\ bz_pc = "reading"
    /\ LET line == IF bz_line < Len(bz_lines)
                   THEN decode(bz_lines[bz_line + 1], ENCODING_ERRORS)
                   ELSE [raises |-> FALSE, text |-> ""]
       IN  IF bz_line = Len(bz_lines)
           THEN bz_pc' = "next" /\ UNCHANGED <<bz_line, bz_out, bz_log>>
           ELSE IF ~read_ok \/ line.raises
           THEN /\ bz_pc' = "next"
                /\ bz_log' = Logged(bz_k, "read")
                /\ UNCHANGED <<bz_line, bz_out>>
           ELSE /\ bz_line' = bz_line + 1
                /\ UNCHANGED bz_log
                /\ bz_out' = IF strip(line.text) = "" THEN bz_out
                             ELSE Append(bz_out,
                                         BronzeRecord(Listing(bz_map)[bz_k], bz_hash,
                                                      Len(bz_out) + 1, strip(line.text)))
                /\ UNCHANGED bz_pc
    /\ UNCHANGED <<bz_map, bz_k, bz_hash_calls, bz_hash, bz_lines,
                   exVars, dlVars, clVars, gvVars, rsVars, hsVars, rpVars>>

\* Lines 54-71: one iteration of enumerate(f, start=1): the line is decoded
\* with errors=ENCODING_ERRORS; a blank line is passed over, any other line
\* is yielded as a record; the end of the file or an exception ends the file.
BronzeLine(read_ok) ==
    /\ bz_pc = "reading"
    /\ LET line == IF bz_line < Len(bz_lines)
                   THEN decode(bz_lines[bz_line + 1], ENCODING_ERRORS)
                   ELSE [raises |-> FALSE, text |-> ""]
       IN  IF bz_line = Len(bz_lines)
           THEN bz_pc' = "next" /\ UNCHANGED <<bz_line, bz_out, bz_log>>
           ELSE IF ~read_ok \/ line.raises
           THEN /\ bz_pc' = "next"
                /\ bz_log' = Logged(bz_k, "read")
                /\ UNCHANGED <<bz_line, bz_out>>
           ELSE /\ bz_line' = bz_line + 1
                /\ UNCHANGED bz_log
                /\ bz_out' = IF strip(line.text) = "" THEN bz_out
                             ELSE Append(bz_out,
                                         BronzeRecord(Listing(bz_map)[bz_k], bz_hash,
                                                      bz_line + 1, strip(line.text)))
                /\ UNCHANGED bz_pc
    /\ UNCHANGED <<bz_map, bz_k, bz_hash_calls, bz_hash, bz_lines,
                   exVars, dlVars, clVars, gvVars, rsVars, hsVars, rpVars>>

\* Both loops are exhausted: the generator ends.
BronzeFinish ==
    /\ bz_pc = "next"
    /\ bz_k = Len(Listing(bz_map))
    /\ bz_pc' = "finished"
    /\ UNCHANGED <<bz_map, bz_k, bz_hash_calls, bz_hash, bz_lines, bz_line, bz_out, bz_log,
                   exVars, dlVars, clVars, gvVars, rsVars, hsVars, rpVars>>

\* The consumer drops the exhausted generator.
BronzeEnd ==
    /\ bz_pc = "finished"
    /\ bz_pc' = "idle"
    /\ bz_map' = <<>>
    /\ bz_k' = 0
    /\ bz_hash_calls' = <<>>
    /\ bz_hash' = "none"
    /\ bz_lines' = <<>>
    /\ bz_line' = 0
    /\ bz_out' = <<>>
    /\ bz_log' = NoLogged
    /\ UNCHANGED <<exVars, dlVars, clVars, gvVars, rsVars, hsVars, rpVars>>

------------------------------------------------------------------------------
(* cleanup *)

MaxEntries == 3
MaxCleanups == 3

\* What is at a path: nothing, a regular file, a directory holding a number
\* of entries, a symbolic link to a file, to a directory or to nothing, or a
\* FIFO.
Node(kind, entries) == [kind |-> kind, entries |-> entries]
AbsentNode == Node("absent", 0)
CleanupNodes ==
    {AbsentNode, Node("file", 0), Node("link_to_file", 0), Node("link_to_dir", 0),
     Node("broken_link", 0), Node("fifo", 0)} \cup {Node("dir", n) : n \in 0..MaxEntries}

\* Path.exists(), Path.is_file() and Path.is_dir() follow symbolic links.
exists(node) == node.kind \notin {"absent", "broken_link"}
is_file(node) == node.kind \in {"file", "link_to_file"}
is_dir(node) == node.kind \in {"dir", "link_to_dir"}

\* What the environment does to the call: nothing; stat() on the path is
\* refused (a directory on the way is not searchable); the removal is
\* refused.
CleanupFaults == {"none", "stat_denied", "remove_denied"}

\* Lines 239-249 up to the removal. Path.exists() is called outside the try
\* and re-raises an OSError other than ENOENT, ENOTDIR, EBADF and ELOOP;
\* unlink() removes a file; shutil.rmtree refuses a symbolic link with
\* OSError; a path that is neither file nor directory is left alone.
Cleanup(fault) ==
    /\ cl_pc = "idle"
    /\ cl_calls < MaxCleanups
    /\ cl_calls' = cl_calls + 1
    /\ IF fault = "stat_denied" /\ cl_node # AbsentNode
       THEN cl_pc' = "raised" /\ cl_error' = "PermissionError"
            /\ UNCHANGED <<cl_node, cl_log>>
       ELSE IF ~exists(cl_node)
       THEN cl_pc' = "returned" /\ UNCHANGED <<cl_node, cl_error, cl_log>>
       ELSE IF is_file(cl_node)
       THEN /\ cl_pc' = "returned"
            /\ IF fault = "remove_denied"
               THEN cl_log' = "warning" /\ UNCHANGED cl_node
               ELSE cl_log' = "debug" /\ cl_node' = AbsentNode
            /\ UNCHANGED cl_error
       ELSE IF is_dir(cl_node)
       THEN /\ IF cl_node.kind = "link_to_dir"
               THEN cl_pc' = "returned" /\ cl_log' = "warning"
               ELSE cl_pc' = "rmtree" /\ UNCHANGED cl_log
            /\ UNCHANGED <<cl_node, cl_error>>
       ELSE cl_pc' = "returned" /\ cl_log' = "debug" /\ UNCHANGED <<cl_node, cl_error>>
    /\ UNCHANGED <<exVars, dlVars, rsVars, hsVars, rpVars, bzVars, gvVars>>

\* Lines 244-249: shutil.rmtree removes the entries and then the directory;
\* the first OSError ends it and is logged as a warning.
CleanupRmtree(ok) ==
    /\ cl_pc = "rmtree"
    /\ IF ~ok
       THEN cl_pc' = "returned" /\ cl_log' = "warning" /\ UNCHANGED cl_node
       ELSE IF cl_node.entries > 0
       THEN cl_node' = Node("dir", cl_node.entries - 1) /\ UNCHANGED <<cl_pc, cl_log>>
       ELSE cl_pc' = "returned" /\ cl_log' = "debug" /\ cl_node' = AbsentNode
    /\ UNCHANGED <<cl_error, cl_calls,
                   exVars, dlVars, rsVars, hsVars, rpVars, bzVars, gvVars>>

\* The caller goes on after the call.
CleanupEnd ==
    /\ cl_pc \in {"returned", "raised"}
    /\ cl_pc' = "idle"
    /\ cl_error' = "none"
    /\ cl_log' = "none"
    /\ UNCHANGED <<cl_node, cl_calls,
                   exVars, dlVars, rsVars, hsVars, rpVars, bzVars, gvVars>>

------------------------------------------------------------------------------
(* create_gold_view *)

MaxRows == 2

\* A null cell of a frame.
None == "<null>"

\* The join keys.
KeyColumns == {"application_number", "product_number"}

Product(app, prod, status) ==
    [application_number |-> app, product_number |-> prod, trade_name |-> "A",
     ingredient |-> "I", marketing_status |-> status]
Patent(app, prod, number) ==
    [application_number |-> app, product_number |-> prod, patent_number |-> number]
Exclusivity(app, prod, code) ==
    [application_number |-> app, product_number |-> prod, exclusivity_code |-> code]

\* The rows of the Silver frames: products carry keys and a status; a patent
\* row may have a null application number.
ProductRows ==
    {Product("000001", "001", "RX"), Product("000001", "001", "DISCN"),
     Product("000001", "002", "discn")}
PatentRows ==
    {Patent("000001", "001", "P1"), Patent("000001", "001", "P2"),
     Patent(None, "001", "P1")}
ExclusivityRows ==
    {Exclusivity("000001", "001", "E1"), Exclusivity("000001", "002", "E1")}

\* Line 46: DataFrame.filter keeps the rows whose predicate is true; the
\* comparison of a null is null.
filter_not_discn(rows) ==
    SelectSeq(rows, LAMBDA r : r.marketing_status # None /\ r.marketing_status # "DISCN")

\* Lines 50-52: the search_vector_text column.
with_search_vector(rows) ==
    [i \in DOMAIN rows |->
        rows[i] @@ [search_vector_text |-> rows[i].trade_name \o " " \o rows[i].ingredient]]

\* with_columns([pl.lit(None).alias(c) for c in cols]).
with_null_columns(rows, cols) ==
    [i \in DOMAIN rows |-> rows[i] @@ [c \in cols |-> None]]

\* Lines 71-79 and 88: the columns added when a frame is empty.
patent_cols ==
    {"patent_number", "patent_expiry_date", "is_drug_substance", "is_drug_product",
     "patent_use_code", "is_delisted", "submission_date"}
excl_cols == {"exclusivity_code", "exclusivity_end_date"}

\* The rows of the right frame that a left row joins: equal keys, a null key
\* joining nothing.
Matches(l, right) ==
    SelectSeq(right, LAMBDA r :
        \A k \in KeyColumns : l[k] # None /\ r[k] # None /\ l[k] = r[k])

\* A join that drops the left rows without a match.
RECURSIVE join_inner(_, _)
join_inner(left, right) ==
    IF left = <<>> THEN <<>>
    ELSE LET l == Head(left)
             m == Matches(l, right)
             others == DOMAIN right[1] \ KeyColumns
         IN  [i \in DOMAIN m |-> l @@ [c \in others |-> m[i][c]]]
             \o join_inner(Tail(left), right)

\* DataFrame.join(right, on=keys, how="left", coalesce=True) with a right
\* frame that is not empty: every left row in order, once per matching right
\* row with its other columns, or once with nulls in them.
RECURSIVE join(_, _)
join(left, right) ==
    IF left = <<>> THEN <<>>
    ELSE LET l == Head(left)
             m == Matches(l, right)
             others == DOMAIN right[1] \ KeyColumns
         IN  (IF m = <<>> THEN << l @@ [c \in others |-> None] >>
              ELSE [i \in DOMAIN m |-> l @@ [c \in others |-> m[i][c]]])
             \o join(Tail(left), right)

\* Lines 18-91.
create_gold_view(products_df, patents_df, exclusivity_df, include_discontinued) ==
    IF products_df = <<>> THEN <<>>
    ELSE LET kept == IF include_discontinued THEN products_df
                     ELSE filter_not_discn(products_df)
             enriched == with_search_vector(kept)
             with_patents == IF patents_df # <<>> THEN join(enriched, patents_df)
                             ELSE with_null_columns(enriched, patent_cols)
         IN  IF exclusivity_df # <<>> THEN join(with_patents, exclusivity_df)
             ELSE with_null_columns(with_patents, excl_cols)

NoGoldArgs ==
    [products_df |-> <<>>, patents_df |-> <<>>, exclusivity_df |-> <<>>,
     include_discontinued |-> FALSE]

\* create_gold_view is called on three frames and returns.
CreateGoldView ==
    /\ gv_pc = "idle"
    /\ gv_pc' = "returned"
    /\ \E products_df \in SeqsUpTo(ProductRows, MaxRows),
          patents_df \in SeqsUpTo(PatentRows, MaxRows),
          exclusivity_df \in SeqsUpTo(ExclusivityRows, MaxRows),
          include_discontinued \in BOOLEAN :
            /\ gv_args' = [products_df |-> products_df, patents_df |-> patents_df,
                           exclusivity_df |-> exclusivity_df,
                           include_discontinued |-> include_discontinued]
            /\ gv_out' = create_gold_view(products_df, patents_df, exclusivity_df,
                                          include_discontinued)
    /\ UNCHANGED <<exVars, dlVars, rsVars, hsVars, rpVars, bzVars, clVars>>

\* The caller drops the frame.
GoldEnd ==
    /\ gv_pc = "returned"
    /\ gv_pc' = "idle"
    /\ gv_args' = NoGoldArgs
    /\ gv_out' = <<>>
    /\ UNCHANGED <<exVars, dlVars, rsVars, hsVars, rpVars, bzVars, clVars>>

------------------------------------------------------------------------------
(* Specifications *)

\* The destination directory before the first call: just created; or
\* holding a symbolic link that leads out of it; or one that leads to itself.
FreshFs == [p \in {Root, <<"w">>, DestDir} |-> DirNode]
LinkedFs == Put(Put(FreshFs, OutDir, DirNode), DestDir \o <<"lnk">>, LinkNode(OutDir))
LoopFs == Put(FreshFs, DestDir \o <<"lnk">>, LinkNode(DestDir \o <<"lnk">>))

InitialFilesystems == {FreshFs, LinkedFs, LoopFs}

\* No extract_archive call is running.
ExtractIdle ==
    /\ ex_pc = "idle"
    /\ archive = NoArchive
    /\ idx = 0
    /\ extracted_files = <<>>
    /\ iterations = <<>>
    /\ ex_error = NoError
    /\ written = {}

\* No download_archive call is running.
DownloadIdle ==
    /\ dl_pc = "idle"
    /\ gets = <<>>
    /\ response = NoResponse
    /\ client_error = "none"
    /\ received = 0
    /\ dl_error = NoDlError

\* No resolve_product_files call is running.
ResolveIdle ==
    /\ rs_pc = "idle"
    /\ rs_files = <<>>
    /\ rs_mapping = NoMapping
    /\ rs_error = NoResolveError

\* No calculate_file_hash call is running and none has returned yet.
HashIdle ==
    /\ hs_pc = "idle"
    /\ hs_file = [kind |-> "absent", data |-> <<>>]
    /\ hs_pos = 0
    /\ hs_md5 = md5
    /\ hs_reads = <<>>
    /\ hs_digest = <<>>
    /\ hs_error = NoHashError
    /\ hs_prev = NoPrev

\* No run_pipeline call is running.
PipelineIdle ==
    /\ rp_pc = "idle"
    /\ rp_args = NoRun
    /\ rp_stage = 0
    /\ rp_calls = <<>>
    /\ rp_error = NoPipelineError
    /\ rp_exit = "none"

\* No yield_bronze_records generator is running.
BronzeIdle ==
    /\ bz_pc = "idle"
    /\ bz_map = <<>>
    /\ bz_k = 0
    /\ bz_hash_calls = <<>>
    /\ bz_hash = "none"
    /\ bz_lines = <<>>
    /\ bz_line = 0
    /\ bz_out = <<>>
    /\ bz_log = NoLogged

\* Nothing after extraction is running.
\* cleanup is not running.
CleanupIdle ==
    /\ cl_pc = "idle"
    /\ cl_error = "none"
    /\ cl_log = "none"
    /\ cl_calls = 0

\* create_gold_view is not running.
GoldIdle ==
    /\ gv_pc = "idle"
    /\ gv_args = NoGoldArgs
    /\ gv_out = <<>>

CoreIdle ==
    ResolveIdle /\ HashIdle /\ PipelineIdle /\ BronzeIdle /\ CleanupIdle /\ GoldIdle

\* FdaConfig.DEFAULT_BASE_URL, and a URL given to the constructor.
DefaultBaseUrl == "https://www.fda.gov/media/76860/download?attachment"
BaseUrls == {DefaultBaseUrl, "http://test.com/zip"}

\* The destination before the first download: nothing there, not even the
\* parent directory; an empty parent directory; or a file of an earlier run.
InitialDestinations ==
    {[parent |-> FALSE, file |-> AbsentFile],
     [parent |-> TRUE, file |-> AbsentFile],
     [parent |-> TRUE, file |-> FileWith(<<"old">>)]}

ExtractInit ==
    /\ fs \in InitialFilesystems
    /\ ExtractIdle
    /\ DownloadIdle
    /\ CoreIdle
    /\ rp_disk = {}
    /\ cl_node = AbsentNode
    /\ base_url = DefaultBaseUrl
    /\ parent_exists = TRUE
    /\ dest_file = AbsentFile

DownloadInit ==
    /\ fs = FreshFs
    /\ ExtractIdle
    /\ DownloadIdle
    /\ CoreIdle
    /\ rp_disk = {}
    /\ cl_node = AbsentNode
    /\ base_url \in BaseUrls
    /\ \E d \in InitialDestinations : parent_exists = d.parent /\ dest_file = d.file

ExtractNext ==
    \/ \E a \in Archives : ExtractArchiveBegin(a)
    \/ \E fault \in PathFaults : SkipMember(fault)
    \/ \E fault \in PathFaults : CheckAborts(fault)
    \/ \E defect \in Defects : ExtractMember(defect)
    \/ ExtractArchiveReturn
    \/ ExtractArchiveEnd

DownloadNext ==
    \/ DownloadRequestFails
    \/ \E r \in Responses, open_ok \in BOOLEAN : DownloadArchiveBegin(r, open_ok)
    \/ DownloadChunk
    \/ DownloadStreamFails
    \/ DownloadArchiveReturn
    \/ DownloadArchiveEnd

\* The state in which the operations after extraction start.
CoreInit ==
    /\ fs = FreshFs
    /\ ExtractIdle
    /\ DownloadIdle
    /\ CoreIdle
    /\ rp_disk = {}
    /\ cl_node = AbsentNode
    /\ base_url = DefaultBaseUrl
    /\ parent_exists = TRUE
    /\ dest_file = AbsentFile

ResolveNext ==
    \/ \E files \in FileLists : ResolveProductFiles(files)
    \/ ResolveEnd

\* The state in which a pipeline run starts.
PipelineInit ==
    /\ fs = FreshFs
    /\ ExtractIdle
    /\ DownloadIdle
    /\ CoreIdle
    /\ rp_disk \in InitialDisks
    /\ cl_node = AbsentNode
    /\ base_url = DefaultBaseUrl
    /\ parent_exists = TRUE
    /\ dest_file = AbsentFile

PipelineNext ==
    \/ \E url \in BaseUrls : RunPipelineBegin(url)
    \/ \E ok \in BOOLEAN, partial \in BOOLEAN : RunPipelineStage(ok, partial)
    \/ RunPipelineReturn
    \/ MainExcept
    \/ MainReturns
    \/ RunPipelineEnd

\* cleanup starts on any path.
CleanupInit ==
    /\ fs = FreshFs
    /\ ExtractIdle
    /\ DownloadIdle
    /\ CoreIdle
    /\ rp_disk = {}
    /\ cl_node \in CleanupNodes
    /\ base_url = DefaultBaseUrl
    /\ parent_exists = TRUE
    /\ dest_file = AbsentFile

CleanupNext ==
    \/ \E fault \in CleanupFaults : Cleanup(fault)
    \/ \E ok \in BOOLEAN : CleanupRmtree(ok)
    \/ CleanupEnd

GoldNext ==
    \/ CreateGoldView
    \/ GoldEnd

BronzeNext ==
    \/ \E items \in FilesMaps : BronzeBegin(items)
    \/ \E outcome \in Digests \cup {"raises"} : BronzeHash(outcome)
    \/ \E open_ok \in BOOLEAN, content \in Contents : BronzeOpen(open_ok, content)
    \/ \E read_ok \in BOOLEAN : BronzeLine(read_ok)
    \/ BronzeFinish
    \/ BronzeEnd

HashNext ==
    \/ \E file \in HashFiles, fault \in HashFaults : HashBegin(file, fault)
    \/ \E read_ok \in BOOLEAN : HashRead(read_ok)
    \/ HashEnd

Init == ExtractInit \/ DownloadInit \/ CoreInit \/ PipelineInit \/ CleanupInit

Next ==
    \/ ExtractNext
    \/ DownloadNext
    \/ ResolveNext
    \/ HashNext
    \/ PipelineNext
    \/ BronzeNext
    \/ CleanupNext
    \/ GoldNext

SpecExtract == ExtractInit /\ [][ExtractNext]_vars

SpecDownload == DownloadInit /\ [][DownloadNext]_vars

SpecResolve == CoreInit /\ [][ResolveNext]_vars

SpecHash == CoreInit /\ [][HashNext]_vars

SpecPipeline == PipelineInit /\ [][PipelineNext]_vars

SpecBronze == CoreInit /\ [][BronzeNext]_vars

SpecCleanup == CleanupInit /\ [][CleanupNext]_vars

SpecGold == CoreInit /\ [][GoldNext]_vars

Spec == Init /\ [][Next]_vars

------------------------------------------------------------------------------
(* Safe Extractor: properties *)

\* The canonical form of a member's candidate path and of the destination.
CanonicalTarget(m) == RealPath(fs, TargetPath(m))
CanonicalDest == RealPath(fs, DestDir).path

\* The candidate path canonicalises to a place outside the destination.
Outside(m) == CanonicalTarget(m).ok /\ ~IsPrefix(CanonicalDest, CanonicalTarget(m).path)

\* The candidate path canonicalises to the destination or below it.
Inside(m) == CanonicalTarget(m).ok /\ IsPrefix(CanonicalDest, CanonicalTarget(m).path)

\* The member the loop is at.
AtMember == ex_pc = "loop" /\ idx < Len(archive.members)
CurrentMember == archive.members[idx + 1]

\* The call left with an exception raised by the path check itself.
CheckRaised == ex_pc = "raised" /\ ex_error.stage = "check"

C2_WrittenInsideDest == \A p \in written : IsPrefix(CanonicalDest, p)

\* The list the iterations so far must have built: the candidate paths of
\* the members whose iteration extracted, in order.
RECURSIVE AcceptedTargets(_, _)
AcceptedTargets(ms, its) ==
    IF its = <<>> THEN <<>>
    ELSE IF Head(its) = "extracted"
         THEN <<TargetPath(Head(ms))>> \o AcceptedTargets(Tail(ms), Tail(its))
         ELSE AcceptedTargets(Tail(ms), Tail(its))

C4_InvalidFormatWritesNothing ==
    (ex_pc = "raised" /\ ex_error.kind = "SourceSchemaError") => written = {}

\* C5: an error raised while canonicalising a member's path or checking its
\* containment never leaves the call: the member is skipped.
C5_CheckErrorNeverLeaves == ~CheckRaised

------------------------------------------------------------------------------
(* Archive Fetcher: properties *)

\* A response has been received in the current call.
Answered == response # NoResponse

\* The final URL shows a block-page marker, wherever in the URL it stands.
MarkerInFinalUrl ==
    \E part \in {response.url.host, response.url.path, response.url.query} :
        "abuse" \in Range(part) \/ "apology" \in Range(part)

\* C6: a response whose final URL holds "abuse" or "apology" makes the call
\* fail with SourceConnectionError whatever its status (200, 404, 403, ...),
\* and the step that receives it leaves the destination file as it was.
C6_BlockPageIsConnectionFailure ==
    [][(Answered /\ MarkerInFinalUrl)'
          => /\ dl_pc' = "raised"
             /\ dl_error'.kind = "SourceConnectionError"
             /\ received' = 0
             /\ dest_file' = dest_file]_vars

\* C6 witness: a 404 answer from a block page failed as a connection
\* failure, with the file of an earlier run still in place.
C6_Witness ==
    /\ dl_pc = "raised"
    /\ response.status = 404
    /\ response.url = AbusePathUrl
    /\ dl_error.kind = "SourceConnectionError"
    /\ dest_file = FileWith(<<"old">>)

\* C7: without a marker in the final URL, 404 fails with SourceSchemaError,
\* 403 with SourceConnectionError, every other status outside 200..299 with
\* SourceConnectionError, and such a response is never streamed to the
\* destination nor followed by a normal return.  (A local OSError from
\* opening the destination is no verdict on the status and is left aside.)
C7_NonSuccessStatusFails ==
    (Answered /\ ~MarkerInFinalUrl /\ response.status \notin 200..299)
        => /\ dl_pc = "raised"
           /\ dl_error.kind # "OSError"
                  => dl_error.kind = IF response.status = 404 THEN "SourceSchemaError"
                                     ELSE "SourceConnectionError"

\* C8: an error the HTTP client raised in this call (at the request, at the
\* status check, or while streaming) has ended the call with
\* SourceConnectionError whose cause is that error.
C8_TransportErrorWrapped ==
    client_error # "none"
        => /\ dl_pc = "raised"
           /\ dl_error.kind = "SourceConnectionError"
           /\ dl_error.cause = client_error

\* C8 witness: the stream broke after a chunk had been written.
C8_Witness ==
    /\ dl_pc = "raised"
    /\ client_error = "RequestsError"
    /\ received >= 1
    /\ dest_file.data # <<>>

\* C9: after a normal return the parent directory exists and the file holds
\* exactly the streamed chunks in arrival order, whatever it held before.
C9_FileIsStreamedBody ==
    dl_pc = "returned" => parent_exists /\ dest_file = FileWith(response.body)

\* C9 witness: a body of two different chunks was written in order.
C9_Witness ==
    /\ dl_pc = "returned"
    /\ response.body = <<"a", "b">>
    /\ dest_file.data = <<"a", "b">>

------------------------------------------------------------------------------
(* Role resolution: properties *)

\* Some file of the list has these letters as its base name, in any case.
HasName(files, letters) == \E i \in DOMAIN files : files[i].name.letters = letters

\* The last file of the list with these letters as its base name.
LastNamed(files, letters) ==
    files[CHOOSE i \in DOMAIN files :
              /\ files[i].name.letters = letters
              /\ \A j \in DOMAIN files : j > i => files[j].name.letters # letters]

\* The file with that base name as a one-element list, or the empty list.
Pick(files, letters) ==
    IF HasName(files, letters) THEN <<LastNamed(files, letters)>> ELSE <<>>

ProductLetters == {"products.txt", "rx.txt", "otc.txt", "disc.txt"}

\* C11: resolve_product_files raises SourceSchemaError "Missing required
\* product files" exactly when no file of the list is named products.txt,
\* rx.txt, otc.txt or disc.txt in any letter case; otherwise it returns a
\* mapping with exactly the keys products, patent, exclusivity and a
\* non-empty products list.
C11_FailsIffNoProductFile ==
    rs_pc # "idle"
        => /\ rs_pc = "raised" <=> \A l \in ProductLetters : ~HasName(rs_files, l)
           /\ rs_pc = "raised"
                 => rs_error = [kind |-> "SourceSchemaError",
                                 message |-> "Missing required product files"]
           /\ rs_pc = "returned"
                 => /\ DOMAIN rs_mapping = {"products", "patent", "exclusivity"}
                    /\ rs_mapping.products # <<>>

\* C11 witness: a list with patent and exclusivity files but no product file
\* was refused.
C11_Witness ==
    /\ rs_pc = "raised"
    /\ HasName(rs_files, "patent.txt")
    /\ HasName(rs_files, "exclusivity.txt")

\* C12: with a products.txt in the list the products role is that one file,
\* whatever components are listed too; without it the role is the listed
\* ones of rx.txt, otc.txt, disc.txt in this order, whatever the list's order.
C12_ProductsRolePreference ==
    rs_pc = "returned"
        => rs_mapping.products =
               IF HasName(rs_files, "products.txt")
               THEN <<LastNamed(rs_files, "products.txt")>>
               ELSE Pick(rs_files, "rx.txt") \o Pick(rs_files, "otc.txt")
                        \o Pick(rs_files, "disc.txt")

\* C12 witness: components listed as disc, otc, rx came out as rx, otc, disc.
C12_Witness ==
    /\ rs_pc = "returned"
    /\ Len(rs_files) = 3
    /\ rs_files[1].name.letters = "disc.txt"
    /\ rs_files[3].name.letters = "rx.txt"
    /\ rs_mapping.products = <<rs_files[3], rs_files[2], rs_files[1]>>

\* C13: once a product file is listed the call returns; the patent role is
\* the file named patent.txt or empty, the exclusivity role the file named
\* exclusivity.txt or empty, each decided by its own name alone.
C13_OptionalRolesIndependent ==
    /\ (rs_pc # "idle" /\ \E l \in ProductLetters : HasName(rs_files, l))
           => rs_pc = "returned"
    /\ rs_pc = "returned"
           => /\ rs_mapping.patent = Pick(rs_files, "patent.txt")
              /\ rs_mapping.exclusivity = Pick(rs_files, "exclusivity.txt")

\* C13 witness: a patent file but no exclusivity file, beside split products.
C13_Witness ==
    /\ rs_pc = "returned"
    /\ ~HasName(rs_files, "products.txt")
    /\ rs_mapping.patent # <<>>
    /\ rs_mapping.exclusivity = <<>>

\* The letter cases a base name can be spelled in.
Caps == {"lower", "upper", "mixed"}

\* The lists that differ from this one only in the letter case of base names.
Recasings(files) ==
    { [i \in DOMAIN files |-> FilePath(files[i].dir, files[i].name.letters, c[i])] :
          c \in [DOMAIN files -> Caps] }

\* Which positions of the list each role holds (a repeated path counts as
\* its last position), and the exception raised.
Assignment(out, files) ==
    [raises |-> out.raises,
     roles |-> [role \in {"products", "patent", "exclusivity"} |->
                   IF out.raises # "none" THEN <<>>
                   ELSE [k \in DOMAIN out.mapping[role] |->
                            CHOOSE i \in DOMAIN files :
                                /\ files[i] = out.mapping[role][k]
                                /\ \A j \in DOMAIN files : j > i => files[j] # files[i]]]]

\* C14: respelling base names in another letter case changes neither the
\* outcome nor which list position goes to which role, and the paths of the
\* result are paths of the list, spelled as given.
C14_CaseInsensitive ==
    rs_pc # "idle"
        => /\ rs_pc = "returned"
                 => \A role \in DOMAIN rs_mapping :
                        Range(rs_mapping[role]) \subseteq Range(rs_files)
           /\ \A other \in Recasings(rs_files) :
                  Assignment(resolve_product_files(other), other)
                      = Assignment([raises |-> rs_error.kind, mapping |-> rs_mapping], rs_files)

\* C14 witness: PRODUCTS.TXT and PATENT.TXT were resolved, capitals kept.
C14_Witness ==
    /\ rs_pc = "returned"
    /\ rs_files = <<FilePath("extracted", "products.txt", "upper"),
                    FilePath("extracted", "patent.txt", "upper")>>
    /\ rs_mapping.products = <<rs_files[1]>>
    /\ rs_mapping.patent = <<rs_files[2]>>

------------------------------------------------------------------------------
(* Safe Extractor: the missing archive *)

\* C16: an extract_archive call whose zip_path does not exist ends at the
\* existence test, before the archive is opened, with the error "ZIP file
\* not found", and the step leaves the filesystem as it was: nothing is
\* created or written in the destination directory.
C16_MissingArchiveTouchesNothing ==
    [][(ex_pc = "idle" /\ ex_pc' # "idle" /\ ~archive'.exists)
          => /\ ex_pc' = "raised"
             /\ ex_error' = Raised("SourceConnectionError", "exists")
             /\ fs' = fs
             /\ written' = {}
             /\ extracted_files' = <<>>]_vars

\* C16 witness: the call failed at the existence test on a destination that
\* holds nothing but the link it held before.
C16_Witness ==
    /\ ex_pc = "raised"
    /\ ~archive.exists
    /\ ex_error.stage = "exists"
    /\ fs = LinkedFs

------------------------------------------------------------------------------
(* Content hashing: properties *)

\* The digest of a whole content absorbed in one piece.
Md5Hex(data) == hexdigest(update(md5, data))

LowercaseHex == {"0", "1", "2", "3", "4", "5", "6", "7",
                 "8", "9", "a", "b", "c", "d", "e", "f"}

\* C17: the digest calculate_file_hash returns is the lowercase hexadecimal
\* digest of the whole content, however the content fell into chunks of at
\* most CHUNK_SIZE bytes (empty, shorter than, a multiple of, longer than a
\* chunk); the file still holds the content read; and the digest equals the
\* one an earlier call returned for the same content.
C17_DigestOfWholeContent ==
    hs_pc = "returned"
        => /\ hs_digest = Md5Hex(hs_file.data)
           /\ Range(hs_digest) \subseteq LowercaseHex
           /\ \A i \in DOMAIN hs_reads : hs_reads[i] <= CHUNK_SIZE
           /\ hs_pos = Len(hs_file.data)
           /\ (hs_prev.known /\ hs_prev.data = hs_file.data) => hs_digest = hs_prev.digest

\* C17 witness: a content longer than two chunks and not a multiple of the
\* chunk size was hashed for the second time.
C17_Witness ==
    /\ hs_pc = "returned"
    /\ Len(hs_file.data) > 2 * CHUNK_SIZE
    /\ Len(hs_file.data) % CHUNK_SIZE # 0
    /\ hs_prev.known
    /\ hs_prev.data = hs_file.data

\* C18: a path that does not exist fails at the existence test, before the
\* file is opened, with the "File not found for hashing" error; every
\* failure of the call is a SourceConnectionError, which carries the OS
\* error as its cause when one occurred, so no raw OS error leaves the
\* call; and a failed read is the last read of the call.
C18_HashFailuresClassified ==
    /\ (hs_pc # "idle" /\ hs_file.kind = "absent")
           => /\ hs_pc = "raised"
              /\ hs_error = HashRaised("SourceConnectionError", "none", "exists")
              /\ hs_reads = <<>>
    /\ hs_pc = "raised"
           => /\ hs_error.kind = "SourceConnectionError"
              /\ hs_error.kind \notin OSErrors
              /\ hs_error.stage \in {"open", "read"} => hs_error.cause \in OSErrors
              /\ hs_error.stage = "read" => Len(hs_reads) <= Len(hs_file.data) \div CHUNK_SIZE + 2

------------------------------------------------------------------------------
(* Error kinds *)

\* The kinds download_archive reports transport failures and block pages with.
TransportKinds ==
    {WrapRequestsError.kind} \cup {ResponseCheck(r) : r \in {q \in Responses : BlockPage(q)}}

\* The kinds used for a moved remote resource (404 without a block-page
\* marker) and for a list of extracted files without product files.
ContentShapeKinds ==
    {ResponseCheck(r) : r \in {q \in Responses : ~BlockPage(q) /\ q.status = 404}}
        \cup {resolve_product_files(<<>>).raises}

\* C15: the kind alone tells the failures apart: a missing local file (the
\* archive to extract, the file to hash) is reported with a kind that is
\* not used for transport or block-page failures of the download, and an
\* archive that is not a valid ZIP container with a kind that is not used
\* for a 404 or for missing product files.
C15_KindsTellFailuresApart ==
    /\ (ex_pc = "raised" /\ ex_error.stage = "exists")
           => ex_error.kind \notin TransportKinds
    /\ (hs_pc = "raised" /\ hs_error.stage = "exists" /\ hs_file.kind = "absent")
           => hs_error.kind \notin TransportKinds
    /\ (ex_pc = "raised" /\ ex_error.stage = "open")
           => ex_error.kind \notin ContentShapeKinds

------------------------------------------------------------------------------
(* The pipeline run: properties *)

\* The cleanup calls a run has made on its source.
CleanupCalls == SelectSeq(rp_calls, LAMBDA c : c.call = "cleanup")

\* C19: when run_pipeline has ended, with every stage done or with a stage
\* having raised, it has called source.cleanup(download_dir) exactly once,
\* and that call is the last call of the run.
C19_CleanupOncePerRun ==
    rp_pc \in {"done", "failed"}
        => /\ Len(CleanupCalls) = 1
           /\ rp_calls[Len(rp_calls)] =
                  [call |-> "cleanup", on |-> "source", arg |-> "download_dir"]

------------------------------------------------------------------------------
(* Bronze ingestion: properties *)

\* C20: calculate_file_hash has been called exactly once for each listed
\* file the loops have reached, in listing order (so once per listed file
\* when the generator ends); no record of a file exists when its hash has
\* just been taken; and every record yielded from the file carries that
\* digest, the file's base name and the role it is listed under.
C20_HashedOnceAndCarried ==
    bz_pc # "idle"
        => /\ bz_hash_calls = [i \in 1..bz_k |-> Listing(bz_map)[i].path]
           /\ bz_pc = "finished" => bz_k = Len(Listing(bz_map))
           /\ bz_pc = "open" => bz_out = <<>>
           /\ bz_out # <<>> => bz_hash \in Digests
           /\ \A i \in DOMAIN bz_out :
                  /\ bz_out[i].source_hash = bz_hash
                  /\ bz_out[i].source_file = Listing(bz_map)[bz_k].path.name
                  /\ bz_out[i].role = Listing(bz_map)[bz_k].role

\* C20 witness: the same path is listed a second time, under another role,
\* was hashed again, and its line 3 has been yielded under that role.
C20_Witness ==
    /\ bz_pc = "finished"
    /\ bz_k = 2
    /\ bz_hash_calls[1] = bz_hash_calls[2]
    /\ Listing(bz_map)[1].role # Listing(bz_map)[2].role
    /\ Len(bz_out) = 2
    /\ bz_out[2].raw_content = [line_number |-> 3, data |-> "y"]
    /\ bz_out[2].role = "patent"

------------------------------------------------------------------------------
(* Bronze ingestion: records and failures *)

\* What a line reads as: its text with the bytes that are not valid UTF-8
\* replaced by U+FFFD, whitespace at both ends removed.
LineData(raw) ==
    CASE raw = " y " -> "y"
      [] raw = " " -> ""
      [] raw = "bad \\x80 byte" -> "bad \\ufffd byte"
      [] OTHER -> raw

\* The records of the first n lines of a file: one per line that is not
\* blank, in file order, numbered by the line's position in the file.
RECURSIVE RecordsOfLines(_, _)
RecordsOfLines(lines, n) ==
    IF n = 0 THEN <<>>
    ELSE RecordsOfLines(lines, n - 1)
             \o (IF LineData(lines[n]) = "" THEN <<>>
                 ELSE <<[line_number |-> n, data |-> LineData(lines[n])]>>)

\* C21: the records yielded from the file being read are exactly one per
\* non-blank line among the lines iterated so far, in file order, numbered
\* by the line's 1-based position counting blank lines; a line with bytes
\* invalid in UTF-8 is yielded with the replacement marker, and no line
\* ends the file by failing to decode.
C21_OneRecordPerNonBlankLine ==
    bz_pc = "reading"
        => /\ [i \in DOMAIN bz_out |-> bz_out[i].raw_content] = RecordsOfLines(bz_lines, bz_line)
           /\ \A n \in 1..Len(bz_lines) : ~decode(bz_lines[n], ENCODING_ERRORS).raises

\* C21 witness: a file whose first line holds an invalid byte was read to
\* its end and gave two records.
C21_Witness ==
    /\ bz_pc = "reading"
    /\ bz_lines = <<"bad \\x80 byte", "x">>
    /\ bz_line = 2
    /\ Len(bz_out) = 2
    /\ bz_out[1].raw_content = [line_number |-> 1, data |-> "bad \\ufffd byte"]

\* The generator's positions: "raised" is an exception leaving it.
BronzePositions == {"idle", "next", "open", "reading", "finished"}

C23_FailuresRaised ==
    bz_log # NoLogged => bz_pc = "raised"

------------------------------------------------------------------------------
(* cleanup: properties *)

\* C24: cleanup never raises to its caller.
C24_CleanupNeverRaises ==
    cl_error = "none"

------------------------------------------------------------------------------
(* create_gold_view: properties *)

\* The product columns of a row.
ProductColumns == DOMAIN Product("", "", "")
ProductOf(row) == [c \in ProductColumns |-> row[c]]

\* The positions of the rows of a frame that have a product's keys.
MatchingRows(p, frame) ==
    {j \in DOMAIN frame : \A k \in KeyColumns : frame[j][k] = p[k]}

Max1(n) == IF n = 0 THEN 1 ELSE n

\* The product rows the view keeps.
Retained ==
    SelectSeq(gv_args.products_df,
              LAMBDA p : gv_args.include_discontinued \/ p.marketing_status # "DISCN")

\* C25: the view is a left join that keeps every retained product: a product
\* is dropped only for the status 'DISCN' without include_discontinued; a
\* retained product with N patent rows and M exclusivity rows on its keys
\* is in max(1,N) x max(1,M) rows, with null patent and exclusivity cells
\* exactly where nothing matches; every row is a retained product's.
C25_LeftJoinKeepsRetainedProducts ==
    gv_pc = "returned"
        => /\ \A i \in DOMAIN gv_out :
                  /\ \E r \in DOMAIN Retained : ProductOf(gv_out[i]) = Retained[r]
                  /\ LET p == ProductOf(gv_out[i])
                         pats == MatchingRows(p, gv_args.patents_df)
                         excl == MatchingRows(p, gv_args.exclusivity_df)
                     IN  /\ IF pats = {} THEN gv_out[i].patent_number = None
                            ELSE \E j \in pats :
                                     gv_out[i].patent_number = gv_args.patents_df[j].patent_number
                         /\ IF excl = {} THEN gv_out[i].exclusivity_code = None
                            ELSE \E j \in excl :
                                     gv_out[i].exclusivity_code
                                         = gv_args.exclusivity_df[j].exclusivity_code
           /\ \A r \in DOMAIN Retained :
                  LET p == Retained[r]
                      copies == Cardinality({q \in DOMAIN Retained : Retained[q] = p})
                      n == Cardinality(MatchingRows(p, gv_args.patents_df))
                      m == Cardinality(MatchingRows(p, gv_args.exclusivity_df))
                  IN  Cardinality({i \in DOMAIN gv_out : ProductOf(gv_out[i]) = p})
                          = copies * Max1(n) * Max1(m)

\* C25 witness: a product with two patents and two exclusivities is in four
\* rows; the discontinued product beside it is in none.
C25_Witness ==
    /\ gv_pc = "returned"
    /\ gv_args.products_df
           = <<Product("000001", "001", "RX"), Product("000001", "001", "DISCN")>>
    /\ ~gv_args.include_discontinued
    /\ gv_args.patents_df = <<Patent("000001", "001", "P1"), Patent("000001", "001", "P2")>>
    /\ gv_args.exclusivity_df
           = <<Exclusivity("000001", "001", "E1"), Exclusivity("000001", "001", "E1")>>
    /\ Len(gv_out) = 4
    /\ \A i \in DOMAIN gv_out : gv_out[i].marketing_status = "RX"

------------------------------------------------------------------------------
(* Safe Extractor: the returned paths *)

\* C26: when extract_archive has returned, every path of the list is the
\* member's destination_dir/filename and names a regular file holding the
\* member's bytes, also for a name with an inner ".." and for a directory
\* entry.
C26_ReturnedPathsHoldMemberBytes ==
    ex_pc = "returned"
        => /\ extracted_files = AcceptedTargets(archive.members, iterations)
           /\ \A i \in DOMAIN extracted_files :
                  LET r == RealPath(fs, extracted_files[i])
                  IN  r.ok /\ IsFile(fs, r.path) /\ fs[r.path] = FileNode("new")

------------------------------------------------------------------------------
(* The pipeline run: order of the stages *)

\* The stages in the order the pipeline is to run them.
StageOrder ==
    <<"download_archive", "extract_archive", "resolve_product_files",
      "pipeline.run(bronze)", "pipeline_silver.run", "pipeline_gold.run">>

\* The stage calls a run has made, in order.
StageCalls ==
    LET made == SelectSeq(rp_calls, LAMBDA c : \E i \in DOMAIN StageOrder : c.call = StageOrder[i])
    IN  [i \in DOMAIN made |-> made[i].call]

\* C27: the stages start in the order download, extract, resolve, Bronze,
\* Silver, Gold, one after the other; the stage that raised is the last call
\* of the run; main exits with status 1 exactly when a stage raised and
\* returns only after all six stages.
C27_StagesInOrderFailureStops ==
    /\ Len(StageCalls) <= Len(StageOrder)
    /\ StageCalls = SubSeq(StageOrder, 1, Len(StageCalls))
    /\ rp_error # NoPipelineError
           => /\ rp_pc \in {"failed", "exited"}
              /\ rp_calls[Len(rp_calls)].call = rp_error.stage
    /\ rp_pc = "exited"
           => /\ rp_exit \in {"returns", "sys.exit(1)"}
              /\ rp_exit = "sys.exit(1)" <=> rp_error # NoPipelineError
              /\ rp_exit = "returns" => StageCalls = StageOrder
    /\ rp_pc # "exited" => rp_exit = "none"

\* C27 witness: extraction raised after the download; resolution and the
\* three loads never ran and main exited with status 1.
C27_Witness ==
    /\ rp_exit = "sys.exit(1)"
    /\ rp_error.stage = "extract_archive"
    /\ StageCalls = <<"download_archive", "extract_archive">>

------------------------------------------------------------------------------
(* Archive Fetcher: where the marker stands *)

\* The path of the final URL shows a block-page marker.
MarkerInFinalUrlPath ==
    InUrlPath("abuse", response.url) \/ InUrlPath("apology", response.url)

\* C28: a 2xx response is refused as a block page only when the path of its
\* final URL holds a marker; with the marker in the host name or the query
\* string only, the call does not fail with the block-page error.
C28_BlockPageOnlyByPath ==
    (Answered /\ response.status \in 200..299 /\ ~MarkerInFinalUrlPath)
        => ~(dl_pc = "raised" /\ dl_error = DlRaised("SourceConnectionError", "none"))

------------------------------------------------------------------------------
(* Archive Fetcher: a failure before streaming *)

\* C29: a call that fails before it streams (block-page marker, 404, 403, a
\* status raise_for_status refuses, a transport error of the request, or the
\* destination refusing to open) leaves the destination file as it was,
\* absent or with its earlier content; only the parent directory is made.
C29_EarlyFailureLeavesDestination ==
    [][(dl_pc = "idle" /\ dl_pc' = "raised")
          => /\ dest_file' = dest_file
             /\ received' = 0
             /\ parent_exists']_vars

\* C29 witness: a 500 answer failed the call and the file of an earlier run
\* still holds what it held.
C29_Witness ==
    /\ dl_pc = "raised"
    /\ response.status = 500
    /\ response.url = CleanUrl
    /\ received = 0
    /\ dest_file = FileWith(<<"old">>)

------------------------------------------------------------------------------
(* Role resolution: the paths of the mapping *)

\* Every path of the returned mapping, role after role.
MappedPaths == rs_mapping.products \o rs_mapping.patent \o rs_mapping.exclusivity

\* C30: every path of the returned mapping is an element of the input list;
\* no path is listed twice, under one role or under two; patent and
\* exclusivity hold at most one path and products at most three; of the
\* input paths with the same lower-cased base name the last one is the one
\* listed.
C30_MappingDrawnFromInput ==
    rs_pc = "returned"
        => /\ \A i \in DOMAIN MappedPaths : MappedPaths[i] \in Range(rs_files)
           /\ \A i, j \in DOMAIN MappedPaths : i # j => MappedPaths[i] # MappedPaths[j]
           /\ Len(rs_mapping.patent) <= 1
           /\ Len(rs_mapping.exclusivity) <= 1
           /\ Len(rs_mapping.products) <= 3
           /\ \A i \in DOMAIN MappedPaths :
                  MappedPaths[i] = LastNamed(rs_files, MappedPaths[i].name.letters)

\* C30 witness: products.txt is listed in the archive's root and then in a
\* sub-directory; the mapping holds the one of the sub-directory.
C30_Witness ==
    /\ rs_pc = "returned"
    /\ rs_files = <<FilePath("extracted", "products.txt", "lower"),
                    FilePath("extracted/sub", "products.txt", "mixed"),
                    FilePath("extracted", "patent.txt", "lower")>>
    /\ rs_mapping.products = <<FilePath("extracted/sub", "products.txt", "mixed")>>
    /\ rs_mapping.patent = <<FilePath("extracted", "patent.txt", "lower")>>

====
